---- MODULE Spec2Model ----
(***************************************************************************)
(* Verification model of Bakefile's core:                                  *)
(*   - bkl/parser/ast.py   _TreeAdaptor.filter_list_or_concat              *)
(*   - bkl/props.py        PropertiesRegistry                              *)
(*   - bkl/makefile.py     MakefileFormatter, MakefileToolset              *)
(*   - bkl/plugins/vs2010.py  Node, XmlFormatter, VS2010Solution,          *)
(*                            VS2010Toolset                                *)
(***************************************************************************)
EXTENDS Integers, Sequences, FiniteSets, TLC

(***************************************************************************)
(* Bounds                                                                  *)
(***************************************************************************)
MaxFrags == 4      \* longest fragment sequence given to filter_list_or_concat
MaxGap   == 1      \* most hidden tokens between two consecutive fragments
MaxWidth == 2      \* most tokens one fragment spans
MaxDeps  == 2      \* longest `deps` list of a target
MaxNodes == 2      \* most nodes in the build subgraph of a target
MaxChildren == 2   \* most children given to the root of a formatted tree
MaxTargets == 2    \* most targets in a module given to VS2010Toolset

VARIABLES
    \* ---- ast.py: filter_list_or_concat(node) ----
    input,      \* node.children as passed in (kept for reference)
    children,   \* local `children` (the part not yet popped)
    adjacent,   \* local `adjacent`
    concats,    \* local `concats`
    apc,        \* position in filter_list_or_concat
    result,     \* returned node (NoNode until the function returns)
    \* ---- props.py: the PropertiesRegistry and what it works on ----
    toolsets,   \* api.Toolset.all(): the registered backends, in iteration order
    registry,   \* the PropertiesRegistry: project, modules, all_targets, target_types
    props,      \* attributes the registry writes on Property objects: toolsets, scope
    created,    \* number of std_*_props() calls so far (each makes new objects)
    call,       \* the last registry operation, its arguments and what it returned
    popAt,      \* history: Toolset.all() as it was when each dictionary was filled
    \* ---- props.py entered by several callers at once ----
    thr,        \* per caller: position in get_*_prop / _init_*_props and locals
    fills,      \* history: how often each dictionary has been filled
    \* ---- makefile.py: MakefileToolset.generate(project) ----
    project,    \* project.modules: the modules, in iteration order
    mi,         \* index of the module `m` of the loop of line 153
    module,     \* the module being generated: its targets, in iteration order
    mpc,        \* position in _gen_makefile
    ti,         \* index of the target `t` of the loop of line 184
    ni,         \* index of the node `node` of the loop of line 187
    calls,      \* history: every Formatter.target call, arguments and result
    f,          \* the OutputFile: text written so far, committed or not
    \* ---- plugins/vs2010.py: XmlFormatter.format(root) ----
    xroot,      \* the Node tree being built and then formatted
    xout,       \* what XmlFormatter.format returned
    xpc,        \* position: the tree is being built, formatted, or format failed
    \* ---- plugins/vs2010.py: VS2010Toolset.generate(project) ----
    kwargsOrder, \* the order in which a keyword dictionary gives three keys
    vsproject,  \* project.modules: the modules, in iteration order
    vmi,        \* index of the module `m` of the loop of line 187
    vti,        \* index of the target `t` of the loop of line 201
    vpc,        \* position in generate / gen_for_module / gen_for_target
    sln,        \* the VS2010Solution of the module being generated
    prj,        \* the OutputFile `f` of gen_for_target
    root,       \* the local `root` of gen_for_target
    guid,       \* the local `guid` of gen_for_target
    issued,     \* history: the guid computed for each target
    \* ---- io.py: what OutputFile.commit() has made visible ----
    disk        \* the files committed, in commit order

astVars == <<input, children, adjacent, concats, apc, result>>

regVars == <<toolsets, registry, props, created, call, popAt>>

concVars == <<thr, fills>>

mkVars == <<project, mi, module, mpc, ti, ni, calls, f>>

xmlVars == <<xroot, xout, xpc>>

vsVars == <<kwargsOrder, vsproject, vmi, vti, vpc, sln, prj, root, guid, issued>>

notAstVars == <<regVars, concVars, mkVars, xmlVars, vsVars, disk>>

notRegVars == <<astVars, concVars, mkVars, xmlVars, vsVars, disk>>

notConcVars == <<astVars, mkVars, xmlVars, vsVars, disk>>

notMkVars == <<astVars, regVars, concVars, xmlVars, vsVars>>

notXmlVars == <<astVars, regVars, concVars, mkVars, vsVars, disk>>

notVsVars == <<astVars, regVars, concVars, mkVars, xmlVars>>

vars == <<input, children, adjacent, concats, apc, result,
          toolsets, registry, props, created, call, popAt, thr, fills,
          project, mi, disk, module, mpc, ti, ni, calls, f,
          xroot, xout, xpc,
          kwargsOrder, vsproject, vmi, vti, vpc, sln, prj, root, guid, issued,
          disk>>

(***************************************************************************)
(* ast.py: tree nodes.  A fragment is a leaf carrying its token span; the  *)
(* nodes made by createFromType(CONCAT/LIST, text=None) carry no token.    *)
(***************************************************************************)
NoTok == [id |-> 0, start |-> -1, stop |-> -1]

NoNode == [type |-> "NONE", tok |-> NoTok, children |-> <<>>]

LiteralNode(id, start, stop) ==
    [type |-> "LITERAL", tok |-> [id |-> id, start |-> start, stop |-> stop],
     children |-> <<>>]

ConcatNode(cs) == [type |-> "CONCAT", tok |-> NoTok, children |-> cs]

ListNode(cs) == [type |-> "LIST", tok |-> NoTok, children |-> cs]

tokenStartIndex(n) == n.tok.start

tokenStopIndex(n) == n.tok.stop

\* The fragment sequences the parser can hand over: fragments in source
\* order, fragment i preceded by gap[i] hidden tokens and spanning width[i]
\* tokens.
RECURSIVE MkFrags(_, _, _)
MkFrags(shape, i, pos) ==
    IF i > Len(shape) THEN <<>>
    ELSE LET s == pos + shape[i][1]
             e == s + shape[i][2] - 1
         IN <<LiteralNode(i, s, e)>> \o MkFrags(shape, i + 1, e + 1)

FragShapes ==
    UNION { [1..n -> (0..MaxGap) \X (1..MaxWidth)] : n \in 0..MaxFrags }

FragInputs == { MkFrags(sh, 1, 0) : sh \in FragShapes }

\* ast.py 262-263: outer `while children:` entered, adjacent = [children.pop(0)]
PopFirst ==
    /\ apc = "outer"
    /\ children # <<>>
    /\ adjacent' = <<Head(children)>>
    /\ children' = Tail(children)
    /\ apc' = "inner"
    /\ UNCHANGED <<input, concats, result>>
    /\ UNCHANGED notAstVars

\* Mutant of IsAdjacent: the "+ 1" forgotten
IsAdjacent_NoPlusOne(a, c) == tokenStopIndex(a) = tokenStartIndex(c)

\* ast.py 265: the adjacency test of the inner loop
IsAdjacent(a, c) == tokenStopIndex(a) + 1 = tokenStartIndex(c)

\* ast.py 264-268: adjacent tokens mean concatenation
AppendAdjacent ==
    /\ apc = "inner"
    /\ children # <<>>
    /\ IsAdjacent(adjacent[Len(adjacent)], Head(children))
    /\ adjacent' = Append(adjacent, Head(children))
    /\ children' = Tail(children)
    /\ UNCHANGED <<input, concats, apc, result>>
    /\ UNCHANGED notAstVars

\* Mutant of GroupNode: every group wrapped, also a group of one
GroupNode_AlwaysWrap(adj) == ConcatNode(adj)

\* ast.py 272-278: what one finished group contributes to `concats`
GroupNode(adj) == IF Len(adj) = 1 THEN adj[1] ELSE ConcatNode(adj)

\* ast.py 264, 269-278: inner loop left (children exhausted or a gap), the
\* group is appended to concats
CloseGroup ==
    /\ apc = "inner"
    /\ \/ children = <<>>
       \/ /\ children # <<>>
          /\ ~IsAdjacent(adjacent[Len(adjacent)], Head(children))
    /\ concats' = Append(concats, GroupNode(adjacent))
    /\ apc' = "outer"
    /\ UNCHANGED <<input, children, adjacent, result>>
    /\ UNCHANGED notAstVars

\* Mutant of ReturnNode: the single-group shortcut dropped
ReturnNode_AlwaysList(cs) == ListNode(cs)

\* ast.py 280-286: the returned node
ReturnNode(cs) == IF Len(cs) = 1 THEN cs[1] ELSE ListNode(cs)

\* ast.py 262, 280-286: outer loop left, result returned
Return ==
    /\ apc = "outer"
    /\ children = <<>>
    /\ result' = ReturnNode(concats)
    /\ apc' = "done"
    /\ UNCHANGED <<input, children, adjacent, concats>>
    /\ UNCHANGED notAstVars

AstNext == PopFirst \/ AppendAdjacent \/ CloseGroup \/ Return


(***************************************************************************)
(* props.py: Property objects.  An object is identified by where it was    *)
(* made: `src` "std" objects are made anew by every std_*_props() call     *)
(* (n = number of the call), "decl" objects sit in a toolset's class       *)
(* attribute of the given kind, "own" objects in a target type's class.    *)
(***************************************************************************)
Backends == {"gnu", "vs2010"}

TargetTypes == {"exe", "library"}

Property(name, src, n, kind) == [name |-> name, src |-> src, n |-> n, kind |-> kind]

NoProp == Property("", "none", 0, "")

\* props.py 35-48
std_target_props(k) ==
    <<Property("id", "std", k, "target"), Property("deps", "std", k, "target")>>

\* props.py 51-60
std_module_props(k) == <<Property("toolsets", "std", k, "module")>>

\* props.py 63-76
std_project_props(k) == <<Property("toolset", "std", k, "project")>>

\* toolset.all_properties(kind) as called at props.py 156, 166, 175, 182.
\* Both toolsets inherit the object x#1, vs2010's y#4 is another object
\* than gnu's y#2, and vs2010 declares a property called id.
toolset_all_properties(b, kind) ==
    IF b = "gnu"
    THEN <<Property("x", "decl", 1, kind), Property("y", "decl", 2, kind)>>
    ELSE <<Property("x", "decl", 1, kind), Property("id", "decl", 3, kind),
           Property("y", "decl", 4, kind)>>

\* target_type.all_properties() as called at props.py 180
target_type_all_properties(t) ==
    IF t = "exe"
    THEN <<Property("sources", "own", 1, t), Property("x", "own", 2, t)>>
    ELSE <<>>

PropKinds == {"properties_project", "properties_module", "properties_target"}
                 \cup {"properties_" \o t : t \in TargetTypes}

DeclObjs ==
    UNION { { toolset_all_properties(b, k)[i] :
                i \in 1..Len(toolset_all_properties(b, k)) } :
            b \in Backends, k \in PropKinds }

\* utils.OrderedDict.__setitem__: a new key goes to the end, a key already
\* there keeps its place and gets the new value
OrderedDict_setitem(items, p) ==
    IF \E i \in 1..Len(items) : items[i].name = p.name
    THEN [i \in 1..Len(items) |-> IF items[i].name = p.name THEN p ELSE items[i]]
    ELSE Append(items, p)

\* props.py 79-82: PropertiesDict.add
PropertiesDict_add(items, p) == OrderedDict_setitem(items, p)

\* A registry field is None or a PropertiesDict
None == [isNone |-> TRUE, items |-> <<>>]

PropertiesDict(items) == [isNone |-> FALSE, items |-> items]

\* props.py 84-88
RECURSIVE _fill_prop_dict(_)
_fill_prop_dict(ps) ==
    IF ps = <<>> THEN <<>>
    ELSE PropertiesDict_add(_fill_prop_dict(SubSeq(ps, 1, Len(ps) - 1)), ps[Len(ps)])

\* dict.get(name, None) as used at props.py 108, 117, 129
DictGet(d, name) ==
    IF \E i \in 1..Len(d.items) : d.items[i].name = name
    THEN d.items[CHOOSE i \in 1..Len(d.items) : d.items[i].name = name]
    ELSE NoProp

\* `name in dict` as used at props.py 126
DictHas(d, name) == \E i \in 1..Len(d.items) : d.items[i].name = name

\* The (toolset, property) pairs the two nested loops of an _init_*_props
\* go through: props.py 155-156, 165-166, 174-175, 181-182
RECURSIVE Contributions(_, _)
Contributions(ts, kind) ==
    IF ts = <<>> THEN <<>>
    ELSE LET ps == toolset_all_properties(Head(ts), kind)
         IN [i \in 1..Len(ps) |-> [toolset |-> Head(ts), p |-> ps[i]]]
                \o Contributions(Tail(ts), kind)

\* props.py 157-158, 167-168, 176-177, 183-184: p.toolsets = [toolset.name],
\* p.scope = scope
TagProperty(pr, c, scope) ==
    [pr EXCEPT ![c.p] = [toolsets |-> <<c.toolset>>, scope |-> scope]]

\* props.py 155-159 (and 165-169, 174-178, 181-185): the loop body applied
\* to every contribution in turn; gives the dictionary and the attributes
RECURSIVE AddContributions(_, _, _, _)
AddContributions(items, pr, cs, scope) ==
    IF cs = <<>> THEN [items |-> items, props |-> pr]
    ELSE AddContributions(PropertiesDict_add(items, Head(cs).p),
                          TagProperty(pr, Head(cs), scope), Tail(cs), scope)

\* props.py 151-159.  h is the heap: [registry, props, created]
_init_project_props(h, ts) ==
    IF ~h.registry.project.isNone THEN h
    ELSE LET r == AddContributions(_fill_prop_dict(std_project_props(h.created + 1)),
                                   h.props, Contributions(ts, "properties_project"),
                                   "project")
         IN [registry |-> [h.registry EXCEPT !.project = PropertiesDict(r.items)],
             props |-> r.props,
             created |-> h.created + 1]

\* props.py 161-169
_init_module_props(h, ts) ==
    IF ~h.registry.modules.isNone THEN h
    ELSE LET r == AddContributions(_fill_prop_dict(std_module_props(h.created + 1)),
                                   h.props, Contributions(ts, "properties_module"),
                                   "module")
         IN [registry |-> [h.registry EXCEPT !.modules = PropertiesDict(r.items)],
             props |-> r.props,
             created |-> h.created + 1]

\* props.py 172-178: the all-target-types half of _init_target_props
InitAllTargets(h, ts) ==
    LET r == AddContributions(_fill_prop_dict(std_target_props(h.created + 1)),
                              h.props, Contributions(ts, "properties_target"),
                              "target")
    IN [registry |-> [h.registry EXCEPT !.all_targets = PropertiesDict(r.items)],
        props |-> r.props,
        created |-> h.created + 1]

\* props.py 179-186: the per-type half of _init_target_props
InitTargetType(h, ts, target_type) ==
    LET r == AddContributions(_fill_prop_dict(target_type_all_properties(target_type)),
                              h.props,
                              Contributions(ts, "properties_" \o target_type),
                              target_type)
    IN [registry |-> [h.registry EXCEPT !.target_types =
                          [t \in (DOMAIN @) \cup {target_type} |->
                              IF t = target_type THEN PropertiesDict(r.items)
                              ELSE @[t]]],
        props |-> r.props,
        created |-> h.created]

\* Mutant of _init_target_props: the guard of line 172 dropped
_init_target_props_NoGuard(h, ts, target_type) ==
    LET h1 == InitAllTargets(h, ts)
    IN IF target_type \notin DOMAIN h1.registry.target_types
       THEN InitTargetType(h1, ts, target_type) ELSE h1

\* props.py 171-186
_init_target_props(h, ts, target_type) ==
    LET h1 == IF h.registry.all_targets.isNone THEN InitAllTargets(h, ts) ELSE h
    IN IF target_type \notin DOMAIN h1.registry.target_types
       THEN InitTargetType(h1, ts, target_type) ELSE h1

\* props.py 101-108
get_project_prop(h, ts, name) ==
    LET h1 == IF h.registry.project.isNone THEN _init_project_props(h, ts) ELSE h
    IN [h |-> h1, ret |-> DictGet(h1.registry.project, name), yielded |-> <<>>]

\* props.py 110-117
get_module_prop(h, ts, name) ==
    LET h1 == IF h.registry.modules.isNone THEN _init_module_props(h, ts) ELSE h
    IN [h |-> h1, ret |-> DictGet(h1.registry.modules, name), yielded |-> <<>>]

\* Mutant of get_target_prop: the all-target-types dictionary is not consulted
get_target_prop_TypeOnly(h, ts, target_type, name) ==
    LET h1 == IF h.registry.all_targets.isNone
                   \/ target_type \notin DOMAIN h.registry.target_types
              THEN _init_target_props(h, ts, target_type) ELSE h
    IN [h |-> h1,
        ret |-> DictGet(h1.registry.target_types[target_type], name),
        yielded |-> <<>>]

\* props.py 119-129
get_target_prop(h, ts, target_type, name) ==
    LET h1 == IF h.registry.all_targets.isNone
                   \/ target_type \notin DOMAIN h.registry.target_types
              THEN _init_target_props(h, ts, target_type) ELSE h
    IN [h |-> h1,
        ret |-> IF DictHas(h1.registry.all_targets, name)
                THEN DictGet(h1.registry.all_targets, name)
                ELSE DictGet(h1.registry.target_types[target_type], name),
        yielded |-> <<>>]

\* props.py 131-135, the generator run to its end
enum_project_props(h, ts) ==
    LET h1 == IF h.registry.project.isNone THEN _init_project_props(h, ts) ELSE h
    IN [h |-> h1, ret |-> NoProp, yielded |-> h1.registry.project.items]

\* props.py 137-141, the generator run to its end
enum_module_props(h, ts) ==
    LET h1 == IF h.registry.modules.isNone THEN _init_module_props(h, ts) ELSE h
    IN [h |-> h1, ret |-> NoProp, yielded |-> h1.registry.modules.items]

\* Mutant of enum_target_props: the two loops in the other order
enum_target_props_AllFirst(h, ts, target_type) ==
    LET h1 == IF h.registry.all_targets.isNone
                   \/ target_type \notin DOMAIN h.registry.target_types
              THEN _init_target_props(h, ts, target_type) ELSE h
    IN [h |-> h1, ret |-> NoProp,
        yielded |-> h1.registry.all_targets.items
                        \o h1.registry.target_types[target_type].items]

\* props.py 143-149, the generator run to its end
enum_target_props(h, ts, target_type) ==
    LET h1 == IF h.registry.all_targets.isNone
                   \/ target_type \notin DOMAIN h.registry.target_types
              THEN _init_target_props(h, ts, target_type) ELSE h
    IN [h |-> h1, ret |-> NoProp,
        yielded |-> h1.registry.target_types[target_type].items
                        \o h1.registry.all_targets.items]

(***************************************************************************)
(* props.py: the operations on the module-level registry (props.py 189)    *)
(***************************************************************************)
LookupNames == {"toolset", "toolsets", "id", "deps", "x", "y", "sources", "nosuch"}

DictKeys == {"project", "modules", "all_targets"} \cup TargetTypes

\* The scopes an operation can name: props.py 101, 110, 119
Scopes == {"project", "module"} \cup TargetTypes

\* props.py 95-99: PropertiesRegistry.__init__
NewRegistry == [project |-> None, modules |-> None, all_targets |-> None,
                target_types |-> [t \in {} |-> None]]

\* Property objects as their constructors leave them: not tagged
NewProps == [o \in DeclObjs |-> [toolsets |-> <<>>, scope |-> ""]]

NoCall == [f |-> "", scope |-> "", name |-> "", ret |-> NoProp, yielded |-> <<>>]

Heap == [registry |-> registry, props |-> props, created |-> created]

\* Is the dictionary named k filled in registry r
Filled(r, k) ==
    IF k = "project" THEN ~r.project.isNone
    ELSE IF k = "modules" THEN ~r.modules.isNone
    ELSE IF k = "all_targets" THEN ~r.all_targets.isNone
    ELSE k \in DOMAIN r.target_types

\* One registry operation fn(scope, name) with outcome r takes effect
Performs(fn, scope, name, r) ==
    /\ registry' = r.h.registry
    /\ props' = r.h.props
    /\ created' = r.h.created
    /\ call' = [f |-> fn, scope |-> scope, name |-> name,
                ret |-> r.ret, yielded |-> r.yielded]
    /\ popAt' = [k \in DictKeys |->
                    IF ~Filled(registry, k) /\ Filled(r.h.registry, k)
                    THEN toolsets ELSE popAt[k]]
    /\ UNCHANGED toolsets
    /\ UNCHANGED notRegVars

GetProjectProp ==
    \E name \in LookupNames :
        Performs("get_project_prop", "project", name,
                 get_project_prop(Heap, toolsets, name))

GetModuleProp ==
    \E name \in LookupNames :
        Performs("get_module_prop", "module", name,
                 get_module_prop(Heap, toolsets, name))

GetTargetProp ==
    \E t \in TargetTypes, name \in LookupNames :
        Performs("get_target_prop", t, name,
                 get_target_prop(Heap, toolsets, t, name))

EnumProjectProps ==
    Performs("enum_project_props", "project", "", enum_project_props(Heap, toolsets))

EnumModuleProps ==
    Performs("enum_module_props", "module", "", enum_module_props(Heap, toolsets))

EnumTargetProps ==
    \E t \in TargetTypes :
        Performs("enum_target_props", t, "", enum_target_props(Heap, toolsets, t))

\* One more toolset gets registered; where it lands in the iteration order
\* of Toolset.all() is not fixed
RegisterToolset ==
    \E b \in Backends, k \in 0..Len(toolsets) :
        /\ \A i \in 1..Len(toolsets) : toolsets[i] # b
        /\ toolsets' = SubSeq(toolsets, 1, k) \o <<b>> \o SubSeq(toolsets, k + 1, Len(toolsets))
        /\ call' = [NoCall EXCEPT !.f = "register", !.name = b]
        /\ UNCHANGED <<registry, props, created, popAt>>
        /\ UNCHANGED notRegVars

RegNext ==
    \/ GetProjectProp \/ GetModuleProp \/ GetTargetProp
    \/ EnumProjectProps \/ EnumModuleProps \/ EnumTargetProps
    \/ RegisterToolset

(***************************************************************************)
(* props.py entered by several callers at once: every caller makes one     *)
(* get_*_prop call, the callers' steps interleave line by line.  Nothing   *)
(* in props.py takes a lock.                                               *)
(***************************************************************************)
NumCallers == 2

Callers == 1..NumCallers

ConcNames == {"y", "nosuch"}

IdleCaller == [pc |-> "idle", scope |-> "", name |-> "", todo |-> <<>>,
               local |-> <<>>, ret |-> NoProp, saw |-> <<>>]

\* The registry field the first half of an access to scope s works on
FieldOf(s) ==
    IF s = "project" THEN "project"
    ELSE IF s = "module" THEN "modules" ELSE "all_targets"

KindOf(s) ==
    IF s = "project" THEN "properties_project"
    ELSE IF s = "module" THEN "properties_module" ELSE "properties_target"

TagOf(s) == IF s \in TargetTypes THEN "target" ELSE s

StdProps(s, k) ==
    IF s = "project" THEN std_project_props(k)
    ELSE IF s = "module" THEN std_module_props(k) ELSE std_target_props(k)

ConcUnchanged == UNCHANGED <<toolsets, call, popAt>> /\ UNCHANGED notConcVars

\* A caller enters get_project_prop / get_module_prop / get_target_prop
Enter(c) ==
    /\ thr[c].pc = "idle"
    /\ \E s \in Scopes, name \in ConcNames :
          thr' = [thr EXCEPT ![c] = [@ EXCEPT !.pc = "check", !.scope = s,
                                               !.name = name]]
    /\ UNCHANGED <<registry, props, created, fills>>
    /\ ConcUnchanged

\* props.py 106, 115, 124: the caller's test whether the scope needs filling
CheckNone(c) ==
    /\ thr[c].pc = "check"
    /\ LET s == thr[c].scope
           need == IF s \in TargetTypes
                   THEN registry.all_targets.isNone
                           \/ s \notin DOMAIN registry.target_types
                   ELSE registry[FieldOf(s)].isNone
       IN thr' = [thr EXCEPT ![c].pc = IF need THEN "guard" ELSE "return"]
    /\ UNCHANGED <<registry, props, created, fills>>
    /\ ConcUnchanged

\* props.py 152-153, 162-163, 172: the test at the head of _init_*_props
InitGuard(c) ==
    /\ thr[c].pc = "guard"
    /\ LET s == thr[c].scope
       IN thr' = [thr EXCEPT ![c].pc =
                    IF registry[FieldOf(s)].isNone THEN "fill"
                    ELSE IF s \in TargetTypes THEN "type_guard" ELSE "return"]
    /\ UNCHANGED <<registry, props, created, fills>>
    /\ ConcUnchanged

\* props.py 154, 164, 173: the field is set to the dictionary of built-ins
FillStd(c) ==
    /\ thr[c].pc = "fill"
    /\ LET s == thr[c].scope
       IN /\ registry' = [registry EXCEPT ![FieldOf(s)] =
                             PropertiesDict(_fill_prop_dict(StdProps(s, created + 1)))]
          /\ fills' = [fills EXCEPT ![FieldOf(s)] = @ + 1]
          /\ thr' = [thr EXCEPT ![c] = [@ EXCEPT !.pc = "loop",
                        !.todo = Contributions(toolsets, KindOf(s))]]
    /\ created' = created + 1
    /\ UNCHANGED props
    /\ ConcUnchanged

\* props.py 155-159, 165-169, 174-178: one turn of the loop, or its end
LoopStep(c) ==
    /\ thr[c].pc = "loop"
    /\ LET s == thr[c].scope
       IN IF thr[c].todo = <<>>
          THEN /\ thr' = [thr EXCEPT ![c].pc =
                            IF s \in TargetTypes THEN "type_guard" ELSE "return"]
               /\ UNCHANGED <<registry, props>>
          ELSE /\ props' = TagProperty(props, Head(thr[c].todo), TagOf(s))
               /\ registry' = [registry EXCEPT ![FieldOf(s)] =
                     PropertiesDict(PropertiesDict_add(@.items, Head(thr[c].todo).p))]
               /\ thr' = [thr EXCEPT ![c].todo = Tail(@)]
    /\ UNCHANGED <<created, fills>>
    /\ ConcUnchanged

\* props.py 179-180: the per-type test, and the local dictionary `props`
TypeGuard(c) ==
    /\ thr[c].pc = "type_guard"
    /\ LET s == thr[c].scope
       IN IF s \in DOMAIN registry.target_types
          THEN thr' = [thr EXCEPT ![c].pc = "return"]
          ELSE thr' = [thr EXCEPT ![c] = [@ EXCEPT !.pc = "type_loop",
                          !.local = _fill_prop_dict(target_type_all_properties(s)),
                          !.todo = Contributions(toolsets, "properties_" \o s)]]
    /\ UNCHANGED <<registry, props, created, fills>>
    /\ ConcUnchanged

\* props.py 181-186: one turn of the per-type loop, or the store after it
TypeLoopStep(c) ==
    /\ thr[c].pc = "type_loop"
    /\ LET s == thr[c].scope
       IN IF thr[c].todo = <<>>
          THEN /\ registry' = [registry EXCEPT !.target_types =
                     [t \in (DOMAIN @) \cup {s} |->
                         IF t = s THEN PropertiesDict(thr[c].local) ELSE @[t]]]
               /\ fills' = [fills EXCEPT ![s] = @ + 1]
               /\ thr' = [thr EXCEPT ![c].pc = "return"]
               /\ UNCHANGED props
          ELSE /\ props' = TagProperty(props, Head(thr[c].todo), s)
               /\ thr' = [thr EXCEPT ![c] = [@ EXCEPT
                            !.local = PropertiesDict_add(@, Head(thr[c].todo).p),
                            !.todo = Tail(@)]]
               /\ UNCHANGED <<registry, fills>>
    /\ UNCHANGED created
    /\ ConcUnchanged

\* props.py 108, 117, 126-129: the lookup in whatever the scope holds now
ReturnProp(c) ==
    /\ thr[c].pc = "return"
    /\ LET s == thr[c].scope
           nm == thr[c].name
       IN thr' = [thr EXCEPT ![c] = [@ EXCEPT !.pc = "done",
                    !.ret = IF s \in TargetTypes
                            THEN IF DictHas(registry.all_targets, nm)
                                 THEN DictGet(registry.all_targets, nm)
                                 ELSE DictGet(registry.target_types[s], nm)
                            ELSE DictGet(registry[FieldOf(s)], nm),
                    !.saw = IF s \in TargetTypes
                            THEN registry.target_types[s].items
                                    \o registry.all_targets.items
                            ELSE registry[FieldOf(s)].items]]
    /\ UNCHANGED <<registry, props, created, fills>>
    /\ ConcUnchanged

ConcNext ==
    \E c \in Callers :
        \/ Enter(c) \/ CheckNone(c) \/ InitGuard(c) \/ FillStd(c) \/ LoopStep(c)
        \/ TypeGuard(c) \/ TypeLoopStep(c) \/ ReturnProp(c)

(***************************************************************************)
(* makefile.py: MakefileToolset._gen_makefile                              *)
(***************************************************************************)
\* Expressions: literals and variable references
LiteralExpr(text) == [kind |-> "literal", v |-> text]

ReferenceExpr(var) == [kind |-> "reference", v |-> var]

NoExpr == [kind |-> "none", v |-> ""]

\* makefile.py 67-77: MakefileFormatter.var_reference
var_reference(var) == "$(" \o var \o ")"

\* makefile.py 127-128: _MakefileExprFormatter.reference
reference(e) == var_reference(e.v)

\* expr.Formatter.format as used at makefile.py 194-199: a literal gives its
\* text, a reference goes through reference()
format(e) == IF e.kind = "reference" THEN reference(e) ELSE e.v

\* Build graph nodes a target type can hand out (get_build_subgraph,
\* makefile.py 185): a named node, a node with one unnamed output, two
\* inputs and one command, a node with two unnamed outputs, a node with none
BuildNode(name, outputs, inputs, commands) ==
    [name |-> name, outputs |-> outputs, inputs |-> inputs, commands |-> commands]

NodePool ==
    { BuildNode(LiteralExpr("all"), <<>>, <<ReferenceExpr("OBJS")>>, <<>>),
      BuildNode(NoExpr, <<LiteralExpr("a.o")>>,
                <<LiteralExpr("a.c"), ReferenceExpr("HDR")>>, <<LiteralExpr("cc -c a.c")>>),
      BuildNode(NoExpr, <<LiteralExpr("p.c"), LiteralExpr("p.h")>>,
                <<LiteralExpr("p.y")>>, <<LiteralExpr("yacc p.y")>>),
      BuildNode(NoExpr, <<>>, <<>>, <<LiteralExpr("true")>>) }

SeqsUpTo(S, n) == UNION { [1..k -> S] : k \in 0..n }

\* A target: its name, the value of its deps property as_py(), and the
\* build subgraph its type gives for it
Target(name, deps, graph) == [name |-> name, deps |-> deps, graph |-> graph]

\* props.py 38-42: id is read-only and defaults to LiteralExpr(t.name)
get_variable_value_id(t) == LiteralExpr(t.name)

\* module.get_target(id), makefile.py 195
get_target(m, id) == m[CHOOSE i \in 1..Len(m) : m[i].name = id]

\* The modules generated: target A with any deps and any subgraph, B and C
Modules ==
    { <<Target("A", ds, g),
        Target("B", <<>>, <<BuildNode(LiteralExpr("B"), <<>>, <<>>, <<>>)>>),
        Target("C", <<"A">>, <<BuildNode(NoExpr, <<LiteralExpr("c.o")>>,
                                         <<LiteralExpr("c.c")>>, <<>>)>>)>> :
      ds \in SeqsUpTo({"A", "B", "C"}, MaxDeps), g \in SeqsUpTo(NodePool, MaxNodes) }

\* The projects generated: a module of Modules, alone or followed by a
\* module whose only node is named or by one whose only node has no name
\* and no output
LaterModules ==
    { <<Target("D", <<>>, <<BuildNode(LiteralExpr("D"), <<>>,
                                      <<LiteralExpr("d.c"), LiteralExpr("d.h")>>,
                                      <<LiteralExpr("mkdir -p out"),
                                        LiteralExpr("touch D")>>)>>)>>,
      <<Target("E", <<>>, <<BuildNode(NoExpr, <<>>, <<>>, <<>>)>>)>> }

Projects ==
    { <<m>> \o rest : m \in Modules,
                      rest \in {<<>>} \cup { <<l>> : l \in LaterModules } }

\* io.OutputFile as constructed at makefile.py 180: nothing written, not
\* committed
NoFile == [text |-> "", committed |-> FALSE]

\* io.OutputFile.commit(): the text written so far becomes the file `name`
OutputFile_commit(d, name, file) == Append(d, [name |-> name, text |-> file.text])

RECURSIVE Join(_, _)
Join(sep, ws) ==
    IF ws = <<>> THEN ""
    ELSE IF Len(ws) = 1 THEN ws[1]
    ELSE ws[1] \o sep \o Join(sep, Tail(ws))

RECURSIVE CommandLines(_)
CommandLines(cs) ==
    IF cs = <<>> THEN "" ELSE "\n\t" \o Head(cs) \o CommandLines(Tail(cs))

\* Mutant of FormatterTarget: no space between the colon and the first
\* dependency
FormatterTarget_NoSpace(name, deps, commands) ==
    name \o ":" \o Join(" ", deps) \o CommandLines(commands) \o "\n\n"

\* makefile.py 94-117: MakefileFormatter.target
FormatterTarget(name, deps, commands) ==
    name \o ":"
         \o (IF deps # <<>> THEN " " \o Join(" ", deps) ELSE "")
         \o CommandLines(commands)
         \o "\n\n"

\* Mutant of NodeDeps: the id of the owning target instead of the dependency's
NodeDeps_OwnId(m, t, node) ==
    [i \in 1..Len(node.inputs) |-> format(node.inputs[i])]
        \o [j \in 1..Len(t.deps) |-> format(get_variable_value_id(t))]

\* makefile.py 194-195: the list `deps`
NodeDeps(m, t, node) ==
    [i \in 1..Len(node.inputs) |-> format(node.inputs[i])]
        \o [j \in 1..Len(t.deps) |->
               format(get_variable_value_id(get_target(m, t.deps[j])))]

\* Mutant of AssertOutputs: any unnamed node with an output passes
AssertOutputs_Truncating(node) == node.name # NoExpr \/ Len(node.outputs) >= 1

\* makefile.py 188-192: the branch taken does not fail, `if node.name` or
\* `assert len(node.outputs) == 1`
AssertOutputs(node) == node.name # NoExpr \/ Len(node.outputs) = 1

\* makefile.py 188-193: the local `out`
NodeOut(node) == IF node.name # NoExpr THEN node.name ELSE node.outputs[1]

\* makefile.py 152-153, 157-180: the next module of project.modules,
\* _gen_makefile entered and its OutputFile opened
GenMakefile ==
    /\ mpc = "modules"
    /\ mi < Len(project)
    /\ mi' = mi + 1
    /\ module' = project[mi + 1]
    /\ f' = NoFile
    /\ ti' = 0
    /\ ni' = 0
    /\ mpc' = "targets"
    /\ UNCHANGED <<project, disk, calls>>
    /\ UNCHANGED notMkVars

\* Mutant of NextTarget: every second target is left out
NextTarget_Skipping ==
    /\ mpc = "targets"
    /\ ti < Len(module)
    /\ ti' = IF ti + 2 <= Len(module) THEN ti + 2 ELSE ti + 1
    /\ ni' = 0
    /\ mpc' = "nodes"
    /\ UNCHANGED <<project, mi, disk, module, calls, f>>
    /\ UNCHANGED notMkVars

\* makefile.py 184-185: the next target of module.targets.itervalues() and
\* its build subgraph
NextTarget ==
    /\ mpc = "targets"
    /\ ti < Len(module)
    /\ ti' = ti + 1
    /\ ni' = 0
    /\ mpc' = "nodes"
    /\ UNCHANGED <<project, mi, disk, module, calls, f>>
    /\ UNCHANGED notMkVars

\* makefile.py 187-200: one node rendered and written
WriteNode ==
    /\ mpc = "nodes"
    /\ ni < Len(module[ti].graph)
    /\ LET t == module[ti]
           node == t.graph[ni + 1]
       IN /\ AssertOutputs(node)
          /\ LET out == NodeOut(node)
                 deps == NodeDeps(module, t, node)
                 commands == [i \in 1..Len(node.commands) |-> format(node.commands[i])]
                 text == FormatterTarget(format(out), deps, commands)
             IN /\ calls' = Append(calls, [module |-> mi, target |-> ti,
                                           node |-> ni + 1,
                                           name |-> format(out), deps |-> deps,
                                           commands |-> commands, text |-> text])
                /\ f' = [f EXCEPT !.text = @ \o text]
    /\ ni' = ni + 1
    /\ UNCHANGED <<project, mi, disk, module, mpc, ti>>
    /\ UNCHANGED notMkVars

\* makefile.py 192: the assertion fails for a node without a name whose
\* outputs are not exactly one; the AssertionError leaves _gen_makefile and,
\* nothing catching it at makefile.py 152-154, generate
AssertFails ==
    /\ mpc = "nodes"
    /\ ni < Len(module[ti].graph)
    /\ ~AssertOutputs(module[ti].graph[ni + 1])
    /\ mpc' = "raised"
    /\ UNCHANGED <<project, mi, disk, module, ti, ni, calls, f>>
    /\ UNCHANGED notMkVars

\* makefile.py 187: the loop over the nodes of one target is over
EndOfGraph ==
    /\ mpc = "nodes"
    /\ ni = Len(module[ti].graph)
    /\ mpc' = "targets"
    /\ UNCHANGED <<project, mi, disk, module, ti, ni, calls, f>>
    /\ UNCHANGED notMkVars

\* makefile.py 184, 202: the loop over the targets is over, f.commit(), and
\* _gen_makefile returns to the loop of generate
Commit ==
    /\ mpc = "targets"
    /\ ti = Len(module)
    /\ f' = [f EXCEPT !.committed = TRUE]
    /\ disk' = OutputFile_commit(disk, <<"makefile", mi>>, f)
    /\ mpc' = "modules"
    /\ UNCHANGED <<project, mi, module, ti, ni, calls>>
    /\ UNCHANGED notMkVars

\* makefile.py 153: the loop over project.modules is over, generate returns
GenerateReturns ==
    /\ mpc = "modules"
    /\ mi = Len(project)
    /\ mpc' = "done"
    /\ UNCHANGED <<project, mi, disk, module, ti, ni, calls, f>>
    /\ UNCHANGED notMkVars

MkNext ==
    \/ GenMakefile \/ NextTarget \/ WriteNode \/ AssertFails \/ EndOfGraph
    \/ Commit \/ GenerateReturns

(***************************************************************************)
(* plugins/vs2010.py: Node, VS2010ExprFormatter, XmlFormatter              *)
(***************************************************************************)
\* expr.ListExpr: a list of expressions
ListExpr(items) == [kind |-> "list", v |-> items]

\* The values put in a tree: plain strings, booleans, expressions
StrVal(s) == [t |-> "str", s |-> s]

BoolVal(b) == [t |-> "bool", b |-> b]

ExprVal(e) == [t |-> "expr", e |-> e]

\* vs2010.py 50-54: Node(name, **kwargs); attrs is filled from kwargs in the
\* order the keyword dictionary gives them
Node(name, kwargs) ==
    [t |-> "node", name |-> name, attrs |-> kwargs, children |-> <<>>]

\* vs2010.py 56-57: Node.__setitem__, self.attrs[key] = value on an
\* OrderedDict: a key already there keeps its place
Node_setitem(n, key, value) ==
    IF \E i \in 1..Len(n.attrs) : n.attrs[i][1] = key
    THEN [n EXCEPT !.attrs = [i \in 1..Len(n.attrs) |->
                                 IF n.attrs[i][1] = key THEN <<key, value>>
                                 ELSE n.attrs[i]]]
    ELSE [n EXCEPT !.attrs = Append(@, <<key, value>>)]

\* vs2010.py 77-78: n.add(Node(...))
Node_add(n, child) == [n EXCEPT !.children = Append(@, <<child.name, child>>)]

\* vs2010.py 80-81: n.add("name", **kwargs)
Node_add_named(n, name, kwargs) ==
    [n EXCEPT !.children = Append(@, <<name, Node(name, kwargs)>>)]

\* vs2010.py 83-85: n.add("key", value)
Node_add_pair(n, key, value) == [n EXCEPT !.children = Append(@, <<key, value>>)]

\* vs2010.py 90-93 with expr.Formatter.format: format() fails on a reference
RECURSIVE HasReference(_)
HasReference(e) ==
    IF e.kind = "reference" THEN TRUE
    ELSE IF e.kind = "list" THEN \E i \in 1..Len(e.v) : HasReference(e.v[i])
    ELSE FALSE

\* vs2010.py 90-91 with expr.Formatter.format: a literal gives its text, a
\* list its items joined by list_sep
RECURSIVE VS2010ExprFormatter_format(_)
VS2010ExprFormatter_format(e) ==
    IF e.kind = "list"
    THEN Join(";", [i \in 1..Len(e.v) |-> VS2010ExprFormatter_format(e.v[i])])
    ELSE e.v

\* vs2010.py 96-99
XML_HEADER ==
    "<?xml version=\"1.0\" encoding=\"utf-8\"?>\n"
    \o "<!-- This file was generated by Bakefile (http://bakefile.org). Do not modify, all changes will be overwritten! -->\n"

\* Replace every character of s by what `map` gives for it
RECURSIVE Translate(_, _)
Translate(s, map) ==
    IF Len(s) = 0 THEN ""
    ELSE LET c == SubSeq(s, 1, 1)
         IN (IF c \in DOMAIN map THEN map[c] ELSE c)
                \o Translate(SubSeq(s, 2, Len(s)), map)

\* xml.sax.saxutils.escape, called at vs2010.py 125
escape(s) ==
    Translate(s, [c \in {"&", "<", ">"} |->
                     IF c = "&" THEN "&amp;" ELSE IF c = "<" THEN "&lt;" ELSE "&gt;"])

\* xml.sax.saxutils.quoteattr, called at vs2010.py 115
quoteattr(s) ==
    LET RECURSIVE Contains(_, _)
        Contains(str, c) ==
            IF Len(str) = 0 THEN FALSE
            ELSE SubSeq(str, 1, 1) = c \/ Contains(SubSeq(str, 2, Len(str)), c)
        data == Translate(escape(s),
                          [c \in {"\n", "\r", "\t"} |->
                              IF c = "\n" THEN "&#10;"
                              ELSE IF c = "\r" THEN "&#13;" ELSE "&#9;"])
    IN IF Contains(data, "\"")
       THEN IF Contains(data, "'")
            THEN "\"" \o Translate(data, [c \in {"\""} |-> "&quot;"]) \o "\""
            ELSE "'" \o data \o "'"
       ELSE "\"" \o data \o "\""

\* Mutant of _format_value: a boolean written the way str() gives it
_format_value_PyBool(val) ==
    IF val.t = "expr" THEN VS2010ExprFormatter_format(val.e)
    ELSE IF val.t = "bool" THEN (IF val.b THEN "True" ELSE "False")
    ELSE val.s

\* vs2010.py 134-141: XmlFormatter._format_value
_format_value(val) ==
    IF val.t = "expr" THEN VS2010ExprFormatter_format(val.e)
    ELSE IF val.t = "bool" THEN (IF val.b THEN "true" ELSE "false")
    ELSE val.s

\* vs2010.py 113-115: the attributes of an element
RECURSIVE FormatAttrs(_)
FormatAttrs(attrs) ==
    IF attrs = <<>> THEN ""
    ELSE " " \o Head(attrs)[1] \o "=" \o quoteattr(_format_value(Head(attrs)[2]))
             \o FormatAttrs(Tail(attrs))

\* vs2010.py 125-128: a child that is not a Node; an empty value is not
\* written
FormatScalar(key, value, subindent) ==
    LET v == escape(_format_value(value))
    IN IF v # "" THEN subindent \o "<" \o key \o ">" \o v \o "</" \o key \o ">\n"
       ELSE ""

\* vs2010.py 112-132: XmlFormatter._format_node
RECURSIVE _format_node(_, _)
RECURSIVE FormatChildren(_, _)
FormatChildren(cs, subindent) ==
    IF cs = <<>> THEN ""
    ELSE (IF Head(cs)[2].t = "node"
          THEN _format_node(Head(cs)[2], subindent)
          ELSE FormatScalar(Head(cs)[1], Head(cs)[2], subindent))
             \o FormatChildren(Tail(cs), subindent)

_format_node(n, indent) ==
    indent \o "<" \o n.name \o FormatAttrs(n.attrs)
           \o (IF n.children # <<>>
               THEN ">\n" \o FormatChildren(n.children, indent \o "  ")
                          \o indent \o "</" \o n.name \o ">\n"
               ELSE " />\n")

\* vs2010.py 98, 122, 137: an expression with a reference in the tree makes
\* the assertion of VS2010ExprFormatter.reference fail
RECURSIVE FormatRaises(_)
FormatRaises(n) ==
    \/ \E i \in 1..Len(n.attrs) :
          n.attrs[i][2].t = "expr" /\ HasReference(n.attrs[i][2].e)
    \/ \E i \in 1..Len(n.children) :
          LET c == n.children[i][2]
          IN IF c.t = "node" THEN FormatRaises(c)
             ELSE c.t = "expr" /\ HasReference(c.e)

\* vs2010.py 109-110: XmlFormatter.format
XmlFormatter_format(node) == XML_HEADER \o _format_node(node, "")

\* vs2010.py 56-57: root[key] = value, for some keys and values
XSetItem ==
    /\ xpc = "build"
    /\ \E key \in {"Label", "Condition"},
          value \in { StrVal("Globals"),
                      StrVal("'$(Cfg)'=='a<b'"),
                      StrVal("say \"hi\""),
                      ExprVal(LiteralExpr("a.cpp")) } :
          xroot' = Node_setitem(xroot, key, value)
    /\ UNCHANGED <<xout, xpc>>
    /\ UNCHANGED notXmlVars

\* vs2010.py 59-87: root.add(...) in its three forms, for some nodes,
\* keyword arguments and values
XAdd ==
    /\ xpc = "build"
    /\ Len(xroot.children) < MaxChildren
    /\ \/ \E child \in
             { Node("Import", <<<<"Project", StrVal("x.props")>>>>),
               Node_add_pair(Node("Group", <<>>), "Flag", BoolVal(TRUE)),
               Node_add_pair(Node("Group", <<<<"Label", StrVal("L")>>>>), "Dirs",
                             ExprVal(ListExpr(<<>>))),
               Node_add(Node("Group", <<>>),
                        Node_add_pair(Node_add_named(Node("Inner", <<>>), "Leaf", <<>>),
                                      "Opt", StrVal("a>b"))) } :
             xroot' = Node_add(xroot, child)
       \/ \E kwargs \in { <<>>, <<<<"Label", StrVal("UserMacros")>>>> } :
             xroot' = Node_add_named(xroot, "PropertyGroup", kwargs)
       \/ \E value \in
             { StrVal("Level3"),
               StrVal(""),
               BoolVal(TRUE),
               BoolVal(FALSE),
               ExprVal(ListExpr(<<>>)),
               ExprVal(ListExpr(<<LiteralExpr("A&B"), LiteralExpr("C")>>)),
               ExprVal(ReferenceExpr("SRC")) } :
             xroot' = Node_add_pair(xroot, "Item", value)
    /\ UNCHANGED <<xout, xpc>>
    /\ UNCHANGED notXmlVars

\* vs2010.py 109-110: XmlFormatter.format(root) returns
XFormat ==
    /\ xpc = "build"
    /\ ~FormatRaises(xroot)
    /\ xout' = XmlFormatter_format(xroot)
    /\ xpc' = "done"
    /\ UNCHANGED xroot
    /\ UNCHANGED notXmlVars

\* vs2010.py 93, 109-110: XmlFormatter.format(root) fails on a reference
XFormatFails ==
    /\ xpc = "build"
    /\ FormatRaises(xroot)
    /\ xpc' = "raised"
    /\ UNCHANGED <<xroot, xout>>
    /\ UNCHANGED notXmlVars

XmlNext == XSetItem \/ XAdd \/ XFormat \/ XFormatFails

(***************************************************************************)
(* plugins/vs2010.py: GUID, VS2010Solution, VS2010Toolset                  *)
(***************************************************************************)
\* vs2010.py 38
NAMESPACE_PRJ == "D9BD5916-F055-4D77-8C69-9448E02BF433"

\* uuid.uuid5(namespace, name) and str() of it, vs2010.py 45-46: the SHA-1
\* digest of namespace and name, taken to be free of collisions and written
\* as the text it was made from
uuid5(namespace, name) == "sha1(" \o namespace \o "," \o name \o ")"

\* str.upper(), vs2010.py 46
upper(s) ==
    LET lower == "abcdefghijklmnopqrstuvwxyz"
        capital == "ABCDEFGHIJKLMNOPQRSTUVWXYZ"
    IN Translate(s, [c \in { SubSeq(lower, i, i) : i \in 1..26 } |->
                       LET i == CHOOSE i \in 1..26 : SubSeq(lower, i, i) = c
                       IN SubSeq(capital, i, i)])

\* Mutant of GUID: the name of the target alone
GUID_TargetOnly(namespace, solution, data) ==
    "{" \o upper(uuid5(namespace, data)) \o "}"

\* vs2010.py 41-46: GUID
GUID(namespace, solution, data) ==
    "{" \o upper(uuid5(namespace, solution \o "/" \o data)) \o "}"

\* Paths: a directory, and a file name made of a stem and an extension
Path(dir, stem, ext) == [dir |-> dir, stem |-> stem, ext |-> ext]

\* os.path.dirname, vs2010.py 192
dirname(p) == p.dir

\* os.path.basename, vs2010.py 193
basename(p) == p.stem \o p.ext

\* os.path.splitext(os.path.basename(p))[0], vs2010.py 193
splitext0(p) == p.stem

\* os.path.join(dir, "<stem><ext>"), vs2010.py 200, 203
join(dir, stem, ext) == Path(dir, stem, ext)

\* io.OutputFile(filename, EOL_WINDOWS), vs2010.py 146, 319, 328
OutputFile(filename) == [filename |-> filename, text |-> "", committed |-> FALSE]

\* io.OutputFile.write(text)
OutputFile_write(file, text) == [file EXCEPT !.text = @ \o text]

\* codecs.BOM_UTF8, vs2010.py 148
BOM_UTF8 == "\\xef\\xbb\\xbf"

\* vs2010.py 145-153: VS2010Solution.__init__
VS2010Solution(name, filename) ==
    [file |-> OutputFile_write(OutputFile(filename),
                  BOM_UTF8 \o "\n"
                  \o "Microsoft Visual Studio Solution File, Format Version 11.00\n"
                  \o "# Visual Studio 2010\n"),
     name |-> name, guids |-> <<>>, projects |-> ""]

\* vs2010.py 156-157: the text `p`
ProjectEntry(name, id, filename) ==
    "Project(\"8BC9CEB8-8B4A-11D0-8D11-00A0C91BC942\") = \"" \o name \o "\", \""
        \o filename \o "\", \"" \o id \o "\"\nEndProject\n"

\* Mutant of VS2010Solution_add: the project text is added, the guid is not
VS2010Solution_add_NoGuid(s, name, id, filename) ==
    [s EXCEPT !.projects = @ \o ProjectEntry(name, id, filename)]

\* vs2010.py 155-159: VS2010Solution.add
VS2010Solution_add(s, name, id, filename) ==
    [s EXCEPT !.guids = Append(@, id),
              !.projects = @ \o ProjectEntry(name, id, filename)]

\* vs2010.py 169-173: the lines written for the guids
RECURSIVE GuidLines(_)
GuidLines(gs) ==
    IF gs = <<>> THEN ""
    ELSE "\t\t" \o Head(gs) \o ".Debug|Win32.ActiveCfg = Debug|Win32\n"
         \o "\t\t" \o Head(gs) \o ".Debug|Win32.Build.0 = Debug|Win32\n"
         \o "\t\t" \o Head(gs) \o ".Release|Win32.ActiveCfg = Release|Win32\n"
         \o "\t\t" \o Head(gs) \o ".Release|Win32.Build.0 = Release|Win32\n"
         \o GuidLines(Tail(gs))

\* vs2010.py 161-175: what VS2010Solution.commit writes before committing
VS2010Solution_commit(s) ==
    [s EXCEPT !.file =
        [OutputFile_write(@,
            s.projects
            \o "Global\n"
            \o "\tGlobalSection(SolutionConfigurationPlatforms) = preSolution\n"
            \o "\t\tDebug|Win32 = Debug|Win32\n"
            \o "\t\tRelease|Win32 = Release|Win32\n"
            \o "\tEndGlobalSection\n"
            \o "\tGlobalSection(ProjectConfigurationPlatforms) = postSolution\n"
            \o GuidLines(s.guids)
            \o "\tEndGlobalSection\n"
            \o "EndGlobal\n") EXCEPT !.committed = TRUE]]

\* vs2010.py 328-348: the text of a filters file
FiltersText ==
    "<?xml version=\"1.0\" encoding=\"utf-8\"?>\n"
    \o "<Project ToolsVersion=\"4.0\" xmlns=\"http://schemas.microsoft.com/developer/msbuild/2003\">\n"
    \o "  <ItemGroup>\n"
    \o "    <Filter Include=\"Source Files\">\n"
    \o "      <UniqueIdentifier>{4FC737F1-C7A5-4376-A066-2A32D752A2FF}</UniqueIdentifier>\n"
    \o "      <Extensions>cpp;c;cc;cxx;def;odl;idl;hpj;bat;asm;asmx</Extensions>\n"
    \o "    </Filter>\n"
    \o "    <Filter Include=\"Header Files\">\n"
    \o "      <UniqueIdentifier>{93995380-89BD-4b04-88EB-625FBE52EBFB}</UniqueIdentifier>\n"
    \o "      <Extensions>h;hpp;hxx;hm;inl;inc;xsd</Extensions>\n"
    \o "    </Filter>\n"
    \o "    <Filter Include=\"Resource Files\">\n"
    \o "      <UniqueIdentifier>{67DA6AB6-F800-4c08-8B7A-83BB121AAD01}</UniqueIdentifier>\n"
    \o "      <Extensions>rc;ico;cur;bmp;dlg;rc2;rct;bin;rgs;gif;jpg;jpeg;jpe;resx;tiff;tif;png;wav;mfcribbon-ms</Extensions>\n"
    \o "    </Filter>\n"
    \o "  </ItemGroup>\n"
    \o "</Project>\n"

\* vs2010.py 238, 256, 267: the Condition attribute for configuration c
Condition(c) == "'$(Configuration)|$(Platform)'=='" \o c \o "|Win32'"

\* The orders in which a dictionary of three keyword arguments can give them
KwargsOrders ==
    { o \in [1..3 -> 1..3] : \A i, j \in 1..3 : i # j => o[i] # o[j] }

\* vs2010.py 220-225: n_configs
ProjectConfigurations ==
    LET ProjectConfiguration(c) ==
            Node_add_pair(
                Node_add_pair(
                    Node("ProjectConfiguration", <<<<"Include", StrVal(c \o "|Win32")>>>>),
                    "Configuration", StrVal(c)),
                "Platform", StrVal("Win32"))
        n0 == Node("ItemGroup", <<<<"Label", StrVal("ProjectConfigurations")>>>>)
        n1 == Node_add(n0, ProjectConfiguration("Debug"))
    IN Node_add(n1, ProjectConfiguration("Release"))

\* vs2010.py 227-231: n_globals
Globals(target, id) ==
    LET n0 == Node("PropertyGroup", <<<<"Label", StrVal("Globals")>>>>)
        n1 == Node_add_pair(n0, "ProjectGuid", StrVal(id))
        n2 == Node_add_pair(n1, "Keyword", StrVal("Win32Proj"))
    IN Node_add_pair(n2, "RootNamespace", StrVal(target.name))

\* Mutant of KnownType: every type is taken for a library
KnownType_Any(target) == TRUE

\* vs2010.py 239-244: the assertion `assert False, "unknown target type"`
\* is not reached
KnownType(target) == target.type = "exe" \/ target.type = "library"

\* vs2010.py 236-247: the loop body for configuration c
Configuration(target, c) ==
    LET n0 == Node("PropertyGroup", <<<<"Label", StrVal("Configuration")>>>>)
        n1 == Node_setitem(n0, "Condition", StrVal(Condition(c)))
        n2 == Node_add_pair(n1, "ConfigurationType",
                            StrVal(IF target.type = "exe" THEN "Application"
                                   ELSE "StaticLibrary"))
        n3 == Node_add_pair(n2, "UseDebugLibraries", BoolVal(c = "Debug"))
    IN Node_add_pair(n3, "CharacterSet", StrVal("Unicode"))

\* vs2010.py 252-260: the loop body for configuration c; vs2010.py 54,
\* attrs.update(kwargs), takes the keyword arguments in the order `order`
PropertySheets(c, order) ==
    LET Kwargs(pairs) == [i \in 1..Len(pairs) |-> pairs[order[i]]]
        n0 == Node("ImportGroup", <<<<"Label", StrVal("PropertySheets")>>>>)
        n1 == Node_setitem(n0, "Condition", StrVal(Condition(c)))
    IN Node_add_named(n1, "Import",
          Kwargs(<< <<"Project",
                      StrVal("$(UserRootDir)\\Microsoft.Cpp.$(Platform).user.props")>>,
                    <<"Condition",
                      StrVal("exists('$(UserRootDir)\\Microsoft.Cpp.$(Platform).user.props')")>>,
                    <<"Label", StrVal("LocalAppDataPlatform")>> >>))

\* vs2010.py 264-269: the loop body for configuration c
LinkIncremental(target, c) ==
    LET n0 == Node("PropertyGroup", <<>>)
    IN IF target.type # "library"
       THEN Node_add_pair(Node_setitem(n0, "Condition", StrVal(Condition(c))),
                          "LinkIncremental", BoolVal(c = "Debug"))
       ELSE n0

\* vs2010.py 271-302: the loop body for configuration c, with n_cl
\* (274-293) and n_link (295-301)
ItemDefinitionGroup(target, c) ==
    LET cl0 == Node_add_pair(Node("ClCompile", <<>>), "WarningLevel", StrVal("Level3"))
        cl1 == IF c = "Debug"
               THEN Node_add_pair(cl0, "Optimization", StrVal("Disabled"))
               ELSE Node_add_pair(
                      Node_add_pair(
                        Node_add_pair(cl0, "Optimization", StrVal("MaxSpeed")),
                        "FunctionLevelLinking", BoolVal(TRUE)),
                      "IntrinsicFunctions", BoolVal(TRUE))
        std_defs == (IF c = "Debug" THEN "WIN32;_DEBUG" ELSE "WIN32;NDEBUG")
                        \o (IF target.type = "exe" THEN ";_CONSOLE" ELSE "")
                        \o (IF target.type = "library" THEN ";_LIB" ELSE "")
                        \o ";%(PreprocessorDefinitions)"
        defs == ListExpr(target.defines \o <<LiteralExpr(std_defs)>>)
        cl2 == Node_add_pair(cl1, "PreprocessorDefinitions", ExprVal(defs))
        n_cl == Node_add_pair(cl2, "AdditionalIncludeDirectories",
                              ExprVal(ListExpr(target.includedirs)))
        lk0 == Node_add_pair(Node("Link", <<>>), "SubSystem",
                             StrVal(IF target.type = "exe" THEN "Console" ELSE "Windows"))
        lk1 == Node_add_pair(lk0, "GenerateDebugInformation", BoolVal(TRUE))
        n_link == IF c = "Release"
                  THEN Node_add_pair(
                         Node_add_pair(lk1, "EnableCOMDATFolding", BoolVal(TRUE)),
                         "OptimizeReferences", BoolVal(TRUE))
                  ELSE lk1
        n0 == Node_setitem(Node("ItemDefinitionGroup", <<>>), "Condition",
                           StrVal(Condition(c)))
    IN Node_add(Node_add(n0, n_cl), n_link)

\* vs2010.py 305-308, 312-315: an ItemGroup with one element per file
RECURSIVE Items(_, _, _)
Items(n, tag, files) ==
    IF files = <<>> THEN n
    ELSE Items(Node_add_named(n, tag, <<<<"Include", ExprVal(Head(files))>>>>),
               tag, Tail(files))

\* vs2010.py 212-317: the tree gen_for_target builds
ProjectTree(target, id, order) ==
    LET r0 == Node("Project", <<>>)
        r1 == Node_setitem(r0, "DefaultTargets", StrVal("Build"))
        r2 == Node_setitem(r1, "ToolsVersion", StrVal("4.0"))
        r3 == Node_setitem(r2, "xmlns",
                           StrVal("http://schemas.microsoft.com/developer/msbuild/2003"))
        r4 == Node_add(r3, ProjectConfigurations)
        r5 == Node_add(r4, Globals(target, id))
        r6 == Node_add_named(r5, "Import",
                 <<<<"Project", StrVal("$(VCTargetsPath)\\Microsoft.Cpp.Default.props")>>>>)
        r7 == Node_add(Node_add(r6, Configuration(target, "Debug")),
                       Configuration(target, "Release"))
        r8 == Node_add_named(r7, "Import",
                 <<<<"Project", StrVal("$(VCTargetsPath)\\Microsoft.Cpp.props")>>>>)
        r9 == Node_add_named(r8, "ImportGroup",
                 <<<<"Label", StrVal("ExtensionSettings")>>>>)
        r10 == Node_add(Node_add(r9, PropertySheets("Debug", order)),
                        PropertySheets("Release", order))
        r11 == Node_add_named(r10, "PropertyGroup", <<<<"Label", StrVal("UserMacros")>>>>)
        r12 == Node_add(Node_add(r11, LinkIncremental(target, "Debug")),
                        LinkIncremental(target, "Release"))
        r13 == Node_add(Node_add(r12, ItemDefinitionGroup(target, "Debug")),
                        ItemDefinitionGroup(target, "Release"))
        r14 == Node_add(r13, Items(Node("ItemGroup", <<>>), "ClCompile", target.sources))
        r15 == IF target.headers # <<>>
               THEN Node_add(r14, Items(Node("ItemGroup", <<>>), "ClInclude",
                                        target.headers))
               ELSE r14
        r16 == Node_add_named(r15, "Import",
                  <<<<"Project", StrVal("$(VCTargetsPath)\\Microsoft.Cpp.targets")>>>>)
    IN Node_add_named(r16, "ImportGroup", <<<<"Label", StrVal("ExtensionTargets")>>>>)

\* A target as gen_for_target reads it: name, type.name, and the values of
\* defines, includedirs, sources and headers
VsTarget(name, type, defines, includedirs, sources, headers) ==
    [name |-> name, type |-> type, defines |-> defines,
     includedirs |-> includedirs, sources |-> sources, headers |-> headers]

\* The targets generated: an executable, a library, a target of a type that
\* is neither, an executable whose sources hold a reference
VsTargetPool ==
    { VsTarget("A", "exe", <<>>, <<>>, <<LiteralExpr("a.cpp")>>, <<>>),
      VsTarget("B", "library", <<LiteralExpr("USE_B")>>, <<LiteralExpr("inc")>>,
               <<LiteralExpr("b.cpp")>>, <<LiteralExpr("b.h")>>),
      VsTarget("C", "dll", <<>>, <<>>, <<LiteralExpr("c.cpp")>>, <<>>),
      VsTarget("D", "exe", <<>>, <<>>, <<ReferenceExpr("SRCS")>>, <<>>) }

\* The projects generated: a module with its targets under distinct names,
\* alone or followed by a module in another directory with the executable
\* only
VsProjects ==
    LET VsModule(source_file, targets) ==
            [source_file |-> source_file, targets |-> targets]
        SourceFiles ==
            { Path("/p", "main", ".bkl"), Path("/q", "main", ".bkl"),
              Path("/p", "util", ".bkl") }
        VsTargetLists ==
            { ts \in SeqsUpTo(VsTargetPool, MaxTargets) :
                \A i, j \in 1..Len(ts) : i # j => ts[i].name # ts[j].name }
    IN { ms \in { <<VsModule(sf, ts)>> \o rest :
                    sf \in SourceFiles, ts \in VsTargetLists,
                    rest \in {<<>>} \cup
                        { <<VsModule(sf2, <<VsTarget("A", "exe", <<>>, <<>>,
                                                     <<LiteralExpr("a.cpp")>>, <<>>)>>)>> :
                          sf2 \in SourceFiles } } :
           \A i, j \in 1..Len(ms) :
               i # j => dirname(ms[i].source_file) # dirname(ms[j].source_file) }

\* vs2010.py 187-188, 191-200: the next module of project.modules,
\* gen_for_module entered and the solution created
VsGenForModule ==
    /\ vpc = "modules"
    /\ vmi < Len(vsproject)
    /\ vmi' = vmi + 1
    /\ LET m == vsproject[vmi + 1]
           output_dir == dirname(m.source_file)
           output_name == splitext0(m.source_file)
       IN sln' = VS2010Solution(output_name, join(output_dir, output_name, ".sln"))
    /\ vti' = 0
    /\ vpc' = "targets"
    /\ UNCHANGED <<kwargsOrder, vsproject, prj, root, guid, issued, disk>>
    /\ UNCHANGED notVsVars

\* vs2010.py 201-204, 208-317: the next target, gen_for_target entered and
\* the tree built
VsBuildTree ==
    /\ vpc = "targets"
    /\ vti < Len(vsproject[vmi].targets)
    /\ LET target == vsproject[vmi].targets[vti + 1]
           g == GUID(NAMESPACE_PRJ, sln.name, target.name)
       IN /\ KnownType(target)
          /\ guid' = g
          /\ root' = ProjectTree(target, g, kwargsOrder)
          /\ issued' = Append(issued, [module |-> vmi, target |-> target.name,
                                       guid |-> g])
    /\ vti' = vti + 1
    /\ vpc' = "open"
    /\ UNCHANGED <<kwargsOrder, vsproject, vmi, sln, prj, disk>>
    /\ UNCHANGED notVsVars

\* vs2010.py 244: the target is neither an executable nor a library, the
\* assertion fails and nothing catches it (187-188, 201-204)
VsUnknownType ==
    /\ vpc = "targets"
    /\ vti < Len(vsproject[vmi].targets)
    /\ ~KnownType(vsproject[vmi].targets[vti + 1])
    /\ vti' = vti + 1
    /\ vpc' = "raised"
    /\ UNCHANGED <<kwargsOrder, vsproject, vmi, sln, prj, root, guid, issued, disk>>
    /\ UNCHANGED notVsVars

\* vs2010.py 319: f = OutputFile(filename, EOL_WINDOWS)
VsOpenProject ==
    /\ vpc = "open"
    /\ prj' = OutputFile(join(dirname(vsproject[vmi].source_file),
                              vsproject[vmi].targets[vti].name, ".vcxproj"))
    /\ vpc' = "write"
    /\ UNCHANGED <<kwargsOrder, vsproject, vmi, vti, sln, root, guid, issued, disk>>
    /\ UNCHANGED notVsVars

\* vs2010.py 320: f.write(XmlFormatter(paths_info).format(root))
VsWriteProject ==
    /\ vpc = "write"
    /\ ~FormatRaises(root)
    /\ prj' = OutputFile_write(prj, XmlFormatter_format(root))
    /\ vpc' = "commit"
    /\ UNCHANGED <<kwargsOrder, vsproject, vmi, vti, sln, root, guid, issued, disk>>
    /\ UNCHANGED notVsVars

\* vs2010.py 93, 320: format fails on a reference, nothing catches it
VsFormatFails ==
    /\ vpc = "write"
    /\ FormatRaises(root)
    /\ vpc' = "raised"
    /\ UNCHANGED <<kwargsOrder, vsproject, vmi, vti, sln, prj, root, guid, issued, disk>>
    /\ UNCHANGED notVsVars

\* vs2010.py 321-322: f.commit() and sln.add(...)
VsCommitProject ==
    /\ vpc = "commit"
    /\ prj' = [prj EXCEPT !.committed = TRUE]
    /\ disk' = OutputFile_commit(disk, prj.filename, prj)
    /\ sln' = VS2010Solution_add(sln, vsproject[vmi].targets[vti].name, guid,
                                 basename(prj.filename))
    /\ vpc' = "filters"
    /\ UNCHANGED <<kwargsOrder, vsproject, vmi, vti, root, guid, issued>>
    /\ UNCHANGED notVsVars

\* vs2010.py 324, 327-349: _write_filters_file_for(filename)
VsWriteFilters ==
    /\ vpc = "filters"
    /\ LET ff == OutputFile_write(
                    OutputFile(Path(prj.filename.dir, prj.filename.stem,
                                    prj.filename.ext \o ".filters")),
                    FiltersText)
       IN disk' = OutputFile_commit(disk, ff.filename, ff)
    /\ vpc' = "targets"
    /\ UNCHANGED <<kwargsOrder, vsproject, vmi, vti, sln, prj, root, guid, issued>>
    /\ UNCHANGED notVsVars

\* vs2010.py 201, 205: the loop over the targets is over, sln.commit(), and
\* gen_for_module returns to the loop of generate
VsCommitSolution ==
    /\ vpc = "targets"
    /\ vti = Len(vsproject[vmi].targets)
    /\ sln' = VS2010Solution_commit(sln)
    /\ disk' = OutputFile_commit(disk, sln.file.filename, sln'.file)
    /\ vpc' = "modules"
    /\ UNCHANGED <<kwargsOrder, vsproject, vmi, vti, prj, root, guid, issued>>
    /\ UNCHANGED notVsVars

\* vs2010.py 187: the loop over project.modules is over, generate returns
VsGenerateReturns ==
    /\ vpc = "modules"
    /\ vmi = Len(vsproject)
    /\ vpc' = "done"
    /\ UNCHANGED <<kwargsOrder, vsproject, vmi, vti, sln, prj, root, guid, issued, disk>>
    /\ UNCHANGED notVsVars

VsNext ==
    \/ VsGenForModule \/ VsBuildTree \/ VsUnknownType \/ VsOpenProject
    \/ VsWriteProject \/ VsFormatFails \/ VsCommitProject \/ VsWriteFilters
    \/ VsCommitSolution \/ VsGenerateReturns

(***************************************************************************)
(* Specifications                                                          *)
(***************************************************************************)
\* ast.py 260-261: filter_list_or_concat entered with the fragments of a node
AstInit ==
    /\ input \in FragInputs
    /\ children = input
    /\ adjacent = <<>>
    /\ concats = <<>>
    /\ apc = "outer"
    /\ result = NoNode
    /\ toolsets = <<>> /\ registry = NewRegistry /\ props = NewProps
    /\ created = 0 /\ call = NoCall /\ popAt = [k \in DictKeys |-> <<>>]
    /\ thr = [c \in Callers |-> IdleCaller] /\ fills = [k \in DictKeys |-> 0]
    /\ module = <<>> /\ mpc = "idle" /\ ti = 0 /\ ni = 0
    /\ calls = <<>> /\ f = NoFile
    /\ project = <<>> /\ mi = 0 /\ disk = <<>>
    /\ xroot = Node("", <<>>) /\ xout = "" /\ xpc = "idle"
    /\ kwargsOrder = <<1, 2, 3>> /\ vsproject = <<>> /\ vmi = 0 /\ vti = 0
    /\ vpc = "idle" /\ root = Node("", <<>>)
    /\ prj = OutputFile(Path("", "", ""))
    /\ sln = [file |-> prj, name |-> "", guids |-> <<>>, projects |-> ""]
    /\ guid = "" /\ issued = <<>>

\* props.py 95-99, 189: the registry as constructed, no toolset registered yet
RegInit ==
    /\ toolsets = <<>>
    /\ registry = NewRegistry
    /\ props = NewProps
    /\ created = 0
    /\ call = NoCall
    /\ popAt = [k \in DictKeys |-> <<>>]
    /\ input = <<>> /\ children = <<>> /\ adjacent = <<>> /\ concats = <<>>
    /\ apc = "idle" /\ result = NoNode
    /\ thr = [c \in Callers |-> IdleCaller] /\ fills = [k \in DictKeys |-> 0]
    /\ module = <<>> /\ mpc = "idle" /\ ti = 0 /\ ni = 0
    /\ calls = <<>> /\ f = NoFile
    /\ project = <<>> /\ mi = 0 /\ disk = <<>>
    /\ xroot = Node("", <<>>) /\ xout = "" /\ xpc = "idle"
    /\ kwargsOrder = <<1, 2, 3>> /\ vsproject = <<>> /\ vmi = 0 /\ vti = 0
    /\ vpc = "idle" /\ root = Node("", <<>>)
    /\ prj = OutputFile(Path("", "", ""))
    /\ sln = [file |-> prj, name |-> "", guids |-> <<>>, projects |-> ""]
    /\ guid = "" /\ issued = <<>>

\* props.py 95-99, 189: the registry as constructed, the toolsets all
\* registered before the first access, no caller in yet
ConcInit ==
    /\ toolsets = <<"gnu", "vs2010">>
    /\ registry = NewRegistry
    /\ props = NewProps
    /\ created = 0
    /\ call = NoCall
    /\ popAt = [k \in DictKeys |-> <<>>]
    /\ thr = [c \in Callers |-> IdleCaller]
    /\ fills = [k \in DictKeys |-> 0]
    /\ input = <<>> /\ children = <<>> /\ adjacent = <<>> /\ concats = <<>>
    /\ apc = "idle" /\ result = NoNode
    /\ module = <<>> /\ mpc = "idle" /\ ti = 0 /\ ni = 0
    /\ calls = <<>> /\ f = NoFile
    /\ project = <<>> /\ mi = 0 /\ disk = <<>>
    /\ xroot = Node("", <<>>) /\ xout = "" /\ xpc = "idle"
    /\ kwargsOrder = <<1, 2, 3>> /\ vsproject = <<>> /\ vmi = 0 /\ vti = 0
    /\ vpc = "idle" /\ root = Node("", <<>>)
    /\ prj = OutputFile(Path("", "", ""))
    /\ sln = [file |-> prj, name |-> "", guids |-> <<>>, projects |-> ""]
    /\ guid = "" /\ issued = <<>>

\* makefile.py 152: generate(project) entered
MkInit ==
    /\ project \in Projects
    /\ mi = 0
    /\ disk = <<>>
    /\ module = <<>>
    /\ mpc = "modules"
    /\ ti = 0
    /\ ni = 0
    /\ calls = <<>>
    /\ f = NoFile
    /\ input = <<>> /\ children = <<>> /\ adjacent = <<>> /\ concats = <<>>
    /\ apc = "idle" /\ result = NoNode
    /\ toolsets = <<>> /\ registry = NewRegistry /\ props = NewProps
    /\ created = 0 /\ call = NoCall /\ popAt = [k \in DictKeys |-> <<>>]
    /\ thr = [c \in Callers |-> IdleCaller] /\ fills = [k \in DictKeys |-> 0]
    /\ xroot = Node("", <<>>) /\ xout = "" /\ xpc = "idle"
    /\ kwargsOrder = <<1, 2, 3>> /\ vsproject = <<>> /\ vmi = 0 /\ vti = 0
    /\ vpc = "idle" /\ root = Node("", <<>>)
    /\ prj = OutputFile(Path("", "", ""))
    /\ sln = [file |-> prj, name |-> "", guids |-> <<>>, projects |-> ""]
    /\ guid = "" /\ issued = <<>>

\* vs2010.py 212: root = Node("Project"), nothing added to it yet
XmlInit ==
    /\ xroot = Node("Project", <<>>)
    /\ xout = ""
    /\ xpc = "build"
    /\ input = <<>> /\ children = <<>> /\ adjacent = <<>> /\ concats = <<>>
    /\ apc = "idle" /\ result = NoNode
    /\ toolsets = <<>> /\ registry = NewRegistry /\ props = NewProps
    /\ created = 0 /\ call = NoCall /\ popAt = [k \in DictKeys |-> <<>>]
    /\ thr = [c \in Callers |-> IdleCaller] /\ fills = [k \in DictKeys |-> 0]
    /\ module = <<>> /\ mpc = "idle" /\ ti = 0 /\ ni = 0
    /\ calls = <<>> /\ f = NoFile
    /\ project = <<>> /\ mi = 0 /\ disk = <<>>
    /\ kwargsOrder = <<1, 2, 3>> /\ vsproject = <<>> /\ vmi = 0 /\ vti = 0
    /\ vpc = "idle" /\ root = Node("", <<>>)
    /\ prj = OutputFile(Path("", "", ""))
    /\ sln = [file |-> prj, name |-> "", guids |-> <<>>, projects |-> ""]
    /\ guid = "" /\ issued = <<>>

\* vs2010.py 186: generate(project) entered
VsInit ==
    /\ kwargsOrder \in KwargsOrders
    /\ vsproject \in VsProjects
    /\ vmi = 0
    /\ vti = 0
    /\ vpc = "modules"
    /\ prj = OutputFile(Path("", "", ""))
    /\ sln = [file |-> prj, name |-> "", guids |-> <<>>, projects |-> ""]
    /\ root = Node("", <<>>)
    /\ guid = ""
    /\ issued = <<>>
    /\ disk = <<>>
    /\ input = <<>> /\ children = <<>> /\ adjacent = <<>> /\ concats = <<>>
    /\ apc = "idle" /\ result = NoNode
    /\ toolsets = <<>> /\ registry = NewRegistry /\ props = NewProps
    /\ created = 0 /\ call = NoCall /\ popAt = [k \in DictKeys |-> <<>>]
    /\ thr = [c \in Callers |-> IdleCaller] /\ fills = [k \in DictKeys |-> 0]
    /\ module = <<>> /\ mpc = "idle" /\ ti = 0 /\ ni = 0
    /\ calls = <<>> /\ f = NoFile
    /\ project = <<>> /\ mi = 0
    /\ xroot = Node("", <<>>) /\ xout = "" /\ xpc = "idle"

SpecAst == AstInit /\ [][AstNext]_vars

SpecReg == RegInit /\ [][RegNext]_vars

SpecRegConc == ConcInit /\ [][ConcNext]_vars

SpecMk == MkInit /\ [][MkNext]_vars

SpecXml == XmlInit /\ [][XmlNext]_vars

SpecVs == VsInit /\ [][VsNext]_vars

\* makefile.py 152, vs2010.py 186: generate(project) of either toolset
\* entered
GenInit ==
    /\ \/ /\ project \in Projects
          /\ mpc = "modules"
          /\ kwargsOrder = <<1, 2, 3>>
          /\ vsproject = <<>>
          /\ vpc = "idle"
       \/ /\ project = <<>>
          /\ mpc = "idle"
          /\ kwargsOrder \in KwargsOrders
          /\ vsproject \in VsProjects
          /\ vpc = "modules"
    /\ mi = 0 /\ module = <<>> /\ ti = 0 /\ ni = 0
    /\ calls = <<>> /\ f = NoFile
    /\ vmi = 0 /\ vti = 0
    /\ prj = OutputFile(Path("", "", ""))
    /\ sln = [file |-> prj, name |-> "", guids |-> <<>>, projects |-> ""]
    /\ root = Node("", <<>>) /\ guid = "" /\ issued = <<>>
    /\ disk = <<>>
    /\ input = <<>> /\ children = <<>> /\ adjacent = <<>> /\ concats = <<>>
    /\ apc = "idle" /\ result = NoNode
    /\ toolsets = <<>> /\ registry = NewRegistry /\ props = NewProps
    /\ created = 0 /\ call = NoCall /\ popAt = [k \in DictKeys |-> <<>>]
    /\ thr = [c \in Callers |-> IdleCaller] /\ fills = [k \in DictKeys |-> 0]
    /\ xroot = Node("", <<>>) /\ xout = "" /\ xpc = "idle"

GenNext == MkNext \/ VsNext

SpecGen == GenInit /\ [][GenNext]_vars

(***************************************************************************)
(* Properties of filter_list_or_concat                                     *)
(***************************************************************************)
\* Token adjacency as the specification words it
TokAdjacent(a, b) == a.tok.stop + 1 = b.tok.start

Groups(r) == IF r.type = "LIST" THEN r.children ELSE <<r>>

Leaves(g) == IF g.type = "CONCAT" THEN g.children ELSE <<g>>

RECURSIVE Flatten(_)
Flatten(gs) == IF gs = <<>> THEN <<>> ELSE Leaves(Head(gs)) \o Flatten(Tail(gs))

NoAdjacency(fs) == \A i \in 1..(Len(fs) - 1) : ~TokAdjacent(fs[i], fs[i + 1])

OneRun(fs) == \A i \in 1..(Len(fs) - 1) : TokAdjacent(fs[i], fs[i + 1])

Returned == apc = "done"

ExampleInput == <<LiteralNode(1, 0, 0), LiteralNode(2, 2, 2), LiteralNode(3, 3, 3)>>

\* C1: for a non-empty fragment sequence the result partitions the input into
\* maximal runs of token-adjacent fragments: a run of one is the fragment
\* itself, a longer run is one Concat of exactly that run (never fewer than 2
\* children), neighbouring groups are not adjacent at their boundary, and the
\* groups read left to right give back the input; foo(0-0) bar(2-2) zar(3-3)
\* gives List[foo, Concat[bar, zar]].
C1_MaximalRuns ==
    (Returned /\ input # <<>>) =>
        LET gs == Groups(result) IN
        /\ Flatten(gs) = input
        /\ \A k \in 1..Len(gs) :
              \/ gs[k].type = "LITERAL"
              \/ /\ gs[k].type = "CONCAT"
                 /\ Len(gs[k].children) >= 2
                 /\ \A j \in 1..Len(gs[k].children) :
                        gs[k].children[j].type = "LITERAL"
                 /\ OneRun(gs[k].children)
        /\ \A k \in 1..(Len(gs) - 1) :
              LET l == Leaves(gs[k])
                  r == Leaves(gs[k + 1])
              IN ~TokAdjacent(l[Len(l)], r[1])
        /\ input = ExampleInput =>
              result = ListNode(<<input[1], ConcatNode(<<input[2], input[3]>>)>>)

\* C1 witness: a returned List holding both a bare fragment and a Concat
C1_Witness ==
    /\ Returned
    /\ result.type = "LIST"
    /\ \E k \in 1..Len(result.children) : result.children[k].type = "CONCAT"
    /\ \E k \in 1..Len(result.children) : result.children[k].type = "LITERAL"

\* C2 (as claimed): with no two consecutive fragments adjacent, also for a
\* sequence of exactly one fragment, the result is a List of the fragments.
C2_Original ==
    (Returned /\ input # <<>> /\ NoAdjacency(input)) =>
        /\ result.type = "LIST"
        /\ Len(result.children) = Len(input)
        /\ \A i \in 1..Len(input) : result.children[i] = input[i]

\* C2 (amended): with two or more fragments, no two consecutive ones adjacent,
\* the result is a List whose i-th item is the i-th fragment; a sequence of
\* exactly one fragment gives that fragment itself, not a List.
C2_NoAdjacencyList ==
    (Returned /\ input # <<>> /\ NoAdjacency(input)) =>
        IF Len(input) >= 2
        THEN /\ result.type = "LIST"
             /\ Len(result.children) = Len(input)
             /\ \A i \in 1..Len(input) : result.children[i] = input[i]
        ELSE result = input[1]

\* C2 witness: a returned List of three or more separate fragments
C2_Witness ==
    /\ Returned
    /\ Len(input) >= 3
    /\ NoAdjacency(input)
    /\ result.type = "LIST"

\* C3: a sequence that is one maximal adjacent run never gives a List: the
\* fragment itself for a run of one, a Concat of all fragments in order for a
\* longer run.
C3_SingleRunCollapse ==
    (Returned /\ input # <<>> /\ OneRun(input)) =>
        /\ result.type # "LIST"
        /\ IF Len(input) = 1 THEN result = input[1]
           ELSE /\ result.type = "CONCAT"
                /\ result.children = input

\* C3 witness: a returned Concat of a run of three or more fragments
C3_Witness ==
    /\ Returned
    /\ Len(input) >= 3
    /\ OneRun(input)
    /\ result.type = "CONCAT"

\* C4 (as claimed): on an empty fragment sequence the pass faults and returns
\* no expression; on every non-empty sequence it returns normally.
C4_EmptyFaults ==
    Returned => (input # <<>> /\ result # NoNode)

(***************************************************************************)
(* Properties of the PropertiesRegistry                                    *)
(***************************************************************************)
Range(sq) == { sq[i] : i \in DOMAIN sq }

Getters == {"get_project_prop", "get_module_prop", "get_target_prop"}

Enumerators == {"enum_project_props", "enum_module_props", "enum_target_props"}

\* The scope has had its first access
Accessed(r, s) ==
    IF s = "project" THEN Filled(r, "project")
    ELSE IF s = "module" THEN Filled(r, "modules")
    ELSE Filled(r, "all_targets") /\ Filled(r, s)

\* What enumerating an accessed scope gives, read off the registry
ScopeContent(r, s) ==
    IF s = "project" THEN r.project.items
    ELSE IF s = "module" THEN r.modules.items
    ELSE r.target_types[s].items \o r.all_targets.items

\* C5: once a scope has been accessed, every later enumeration of it gives
\* the identical sequence of the same Property objects and every later access
\* to it leaves the registry unchanged, whatever lookups, enumerations and
\* toolset registrations come in between.
C5_FrozenAfterFirstAccess ==
    [][\A s \in Scopes :
          Accessed(registry, s) =>
              /\ Accessed(registry', s)
              /\ ScopeContent(registry', s) = ScopeContent(registry, s)
              /\ (call'.scope = s /\ call'.f \in Getters \cup Enumerators) =>
                    /\ registry' = registry
                    /\ props' = props
                    /\ created' = created
                    /\ call'.f \in Enumerators =>
                          call'.yielded = ScopeContent(registry, s)]_vars

\* C5 witness: a scope filled before the last toolset was registered is
\* enumerated again
C5_Witness ==
    /\ call.f = "enum_target_props"
    /\ Len(toolsets) = 2
    /\ popAt[call.scope] # toolsets
    /\ popAt["all_targets"] # toolsets
    /\ \E t \in TargetTypes : t # call.scope /\ Filled(registry, t)
                                /\ popAt[t] = toolsets

\* Built-in property names of a scope
BuiltinNames(s) ==
    IF s = "project" THEN <<"toolset">>
    ELSE IF s = "module" THEN <<"toolsets">>
    ELSE <<"id", "deps">>

\* All declarations a scope is merged from, in the order the code merges
\* them, given the built-in objects' generation k: for a target type the
\* per-type dictionary and the all-target-types dictionary are two lists
TypeDeclarations(t) ==
    target_type_all_properties(t)
        \o [i \in DOMAIN Contributions(popAt[t], "properties_" \o t) |->
                Contributions(popAt[t], "properties_" \o t)[i].p]

CommonDeclarations(s, k) ==
    IF s = "project"
    THEN std_project_props(k)
            \o [i \in DOMAIN Contributions(popAt["project"], "properties_project") |->
                    Contributions(popAt["project"], "properties_project")[i].p]
    ELSE IF s = "module"
    THEN std_module_props(k)
            \o [i \in DOMAIN Contributions(popAt["modules"], "properties_module") |->
                    Contributions(popAt["modules"], "properties_module")[i].p]
    ELSE std_target_props(k)
            \o [i \in DOMAIN Contributions(popAt["all_targets"], "properties_target") |->
                    Contributions(popAt["all_targets"], "properties_target")[i].p]

\* Every name once, at the place of its first declaration, bound to its
\* last declaration
FirstOf(ds, i) == \A j \in 1..(i - 1) : ds[j].name # ds[i].name

LastNamed(ds, nm) ==
    ds[CHOOSE i \in 1..Len(ds) :
          ds[i].name = nm /\ \A j \in (i + 1)..Len(ds) : ds[j].name # nm]

RECURSIVE Merged(_, _)
Merged(ds, i) ==
    IF i > Len(ds) THEN <<>>
    ELSE (IF FirstOf(ds, i) THEN <<LastNamed(ds, ds[i].name)>> ELSE <<>>)
            \o Merged(ds, i + 1)

\* Names declared for a scope by anybody, registered or not
DeclaredNames(s) ==
    Range(BuiltinNames(s))
      \cup (IF s \in TargetTypes
            THEN { p.name : p \in Range(target_type_all_properties(s)) }
            ELSE {})
      \cup UNION { { p.name : p \in Range(toolset_all_properties(b, k)) } :
                   b \in Backends, k \in PropKinds }

\* C7: a lookup of a name that nothing declares returns the absent result
\* (None), in a scope filled before the call as well as in one the call
\* fills; a name declared in the scope returns a Property of that name that
\* the scope was filled from.
C7_UnknownNameIsNone ==
    call.f \in Getters =>
        LET s == call.scope
            ds == IF s \in TargetTypes
                  THEN UNION { Range(CommonDeclarations(s, k)) : k \in 1..created }
                           \cup Range(TypeDeclarations(s))
                  ELSE UNION { Range(CommonDeclarations(s, k)) : k \in 1..created }
        IN /\ call.name \notin DeclaredNames(s) => call.ret = NoProp
           /\ call.name \in { p.name : p \in ds } =>
                 /\ call.ret # NoProp
                 /\ call.ret.name = call.name
                 /\ call.ret \in ds
           /\ call.name \notin { p.name : p \in ds } => call.ret = NoProp

\* C7 witness: a name nobody declares looked up in a target scope that both
\* toolsets contributed to, answered with None
C7_Witness ==
    /\ call.f = "get_target_prop"
    /\ call.name = "nosuch"
    /\ call.ret = NoProp
    /\ Len(popAt[call.scope]) = 2

\* C8 (as claimed): every enumeration starts with the built-in properties of
\* the scope; for a target type id and deps come before the type's own and
\* before every backend-contributed property.
C8_Original ==
    call.f \in Enumerators =>
        LET b == BuiltinNames(call.scope) IN
        /\ Len(call.yielded) >= Len(b)
        /\ \A i \in 1..Len(b) : call.yielded[i].name = b[i]

\* C8 (amended): the project and module enumerations give the scope's
\* property names in the order of their first declaration, built-ins first,
\* then the toolsets' in Toolset.all() order; the enumeration for a target
\* type gives first the type's own properties and the toolsets' extensions
\* for that type and after them the built-ins id, deps and the toolsets'
\* all-target properties.  A name declared more than once within one of
\* these lists appears once, bound to its last declaration.
C8_EnumOrder ==
    call.f \in Enumerators =>
        \E k \in 1..created :
            call.yielded =
                IF call.scope \in TargetTypes
                THEN Merged(TypeDeclarations(call.scope), 1)
                        \o Merged(CommonDeclarations(call.scope, k), 1)
                ELSE Merged(CommonDeclarations(call.scope, k), 1)

\* C8 witness: a target type with own properties enumerated with both
\* toolsets contributing to both of its dictionaries
C8_Witness ==
    /\ call.f = "enum_target_props"
    /\ call.scope = "exe"
    /\ Len(popAt["exe"]) = 2
    /\ Len(popAt["all_targets"]) = 2

\* C9 (as claimed): in a filled scope every toolset-contributed property is
\* tagged with exactly the toolsets that contributed it, and the built-in
\* properties with none.
C9_TaggedWithContributors ==
    \A k \in DictKeys :
        Filled(registry, k) =>
            LET d == IF k = "project" THEN registry.project
                     ELSE IF k = "modules" THEN registry.modules
                     ELSE IF k = "all_targets" THEN registry.all_targets
                     ELSE registry.target_types[k]
            IN \A i \in 1..Len(d.items) :
                  LET o == d.items[i] IN
                  IF o \in DeclObjs
                  THEN Range(props[o].toolsets) =
                         { b \in Range(popAt[k]) :
                             o \in Range(toolset_all_properties(b, o.kind)) }
                  ELSE o.src \in {"std", "own"}

\* C6 (as claimed): with several callers making the first access to a scope
\* at once, every dictionary of the scope is filled at most once and no
\* caller reads a scope that lacks a property some registered toolset
\* contributes to it.
C6_FilledOnceNeverPartial ==
    /\ \A k \in DictKeys : fills[k] <= 1
    /\ \A c \in Callers :
          thr[c].pc = "done" =>
              LET s == thr[c].scope
                  kinds == IF s \in TargetTypes
                           THEN {"properties_target", "properties_" \o s}
                           ELSE {KindOf(s)}
              IN \A i \in 1..Len(toolsets), k \in kinds :
                    \A p \in Range(toolset_all_properties(toolsets[i], k)) :
                       \E j \in 1..Len(thr[c].saw) : thr[c].saw[j].name = p.name

(***************************************************************************)
(* Properties of MakefileToolset._gen_makefile                             *)
(***************************************************************************)
\* The text a makefile shows for an expression
Rendered(e) == IF e.kind = "literal" THEN e.v ELSE "$(" \o e.v \o ")"

\* C10: for every node of every target A, the dependency list handed to the
\* node serializer is the node's formatted inputs in order, followed by one
\* entry per element of A's deps, each the formatted id of the named target,
\* in the order listed; with deps = [] it is exactly the formatted inputs.
C10_DepsPerNode ==
    \A k \in 1..Len(calls) :
        LET t == project[calls[k].module][calls[k].target]
            node == t.graph[calls[k].node]
            d == calls[k].deps
            n == Len(node.inputs)
        IN /\ Len(d) = n + Len(t.deps)
           /\ \A i \in 1..n : d[i] = Rendered(node.inputs[i])
           /\ \A j \in 1..Len(t.deps) : d[n + j] = t.deps[j]
           /\ t.deps = <<>> =>
                 d = [i \in 1..n |-> Rendered(node.inputs[i])]

\* C10 witness: a node with inputs written for a target with two different
\* deps
C10_Witness ==
    \E k \in 1..Len(calls) :
        LET t == project[calls[k].module][calls[k].target]
            node == t.graph[calls[k].node]
        IN /\ Len(t.deps) = 2
           /\ t.deps[1] # t.deps[2]
           /\ Len(node.inputs) = 2
           /\ Len(calls[k].deps) = 4

(***************************************************************************)
(* C11: the block MakefileFormatter.target returns                         *)
(***************************************************************************)
RECURSIVE SpacePrefixed(_)
SpacePrefixed(ws) ==
    IF ws = <<>> THEN "" ELSE " " \o Head(ws) \o SpacePrefixed(Tail(ws))

RECURSIVE TabLines(_)
TabLines(cs) ==
    IF cs = <<>> THEN "" ELSE "\t" \o Head(cs) \o "\n" \o TabLines(Tail(cs))

\* The block as the claim words it: header line, command lines, blank line
Block(name, deps, commands) ==
    name \o ":" \o SpacePrefixed(deps) \o "\n" \o TabLines(commands) \o "\n"

\* A node without a name, with one output, two inputs and one command
IsStubNode(node) ==
    /\ node.name = NoExpr
    /\ Len(node.outputs) = 1
    /\ Len(node.inputs) = 2
    /\ Len(node.commands) = 1

\* C11: whatever name, dependencies and commands MakefileFormatter.target is
\* given, it returns exactly the block "<name>:", the dependencies each
\* preceded by one space, a newline, one "\t<command>" line per command in
\* order, and one empty line; for the stub node of one unnamed output, two
\* inputs and one command in a target without deps that is one block with
\* the two inputs separated by spaces and one tab-indented command line.
C11_TargetBlock ==
    \A k \in 1..Len(calls) :
        LET c == calls[k]
            t == project[c.module][c.target]
            node == t.graph[c.node]
        IN /\ c.text = Block(c.name, c.deps, c.commands)
           /\ (IsStubNode(node) /\ t.deps = <<>>) =>
                 c.text = Rendered(node.outputs[1]) \o ": "
                             \o Rendered(node.inputs[1]) \o " "
                             \o Rendered(node.inputs[2]) \o "\n\t"
                             \o Rendered(node.commands[1]) \o "\n\n"

\* C11 witness: the stub node written for a target without deps, and a node
\* with two dependencies and two commands written
C11_Witness ==
    /\ \E k \in 1..Len(calls) :
          LET t == project[calls[k].module][calls[k].target]
          IN /\ IsStubNode(t.graph[calls[k].node])
             /\ t.deps = <<>>
             /\ calls[k].text = "a.o: a.c $(HDR)\n\tcc -c a.c\n\n"
    /\ \E k \in 1..Len(calls) :
          /\ Len(calls[k].deps) = 2
          /\ Len(calls[k].commands) = 2

(***************************************************************************)
(* C12: the display name of a node, and nodes that have none               *)
(***************************************************************************)
\* A node for which no display name exists: no name, and not one output
Nameless(node) == node.name = NoExpr /\ Len(node.outputs) # 1

\* The node the loops of makefile.py 184-187 are at
CurrentNode == module[ti].graph[ni + 1]

\* The nodes of module m the loops have gone past when at target t, node n
Passed(m, t, n) ==
    { <<a, b>> \in (1..Len(m)) \X (1..MaxNodes + 1) :
        /\ b <= Len(m[a].graph)
        /\ a < t \/ (a = t /\ b <= n) }

\* C12: every block is written under the node's own name when it has one
\* and otherwise under its only output; generation never gets past a node
\* that has no name and not exactly one output: it stops there with an
\* error, no block is written for such a node, and the makefile of that
\* module is not committed.
C12_DisplayNameOrRejected ==
    /\ \A k \in 1..Len(calls) :
          LET node == project[calls[k].module][calls[k].target].graph[calls[k].node]
          IN /\ ~Nameless(node)
             /\ node.name # NoExpr => calls[k].name = Rendered(node.name)
             /\ node.name = NoExpr => calls[k].name = Rendered(node.outputs[1])
    /\ mi > 0 => \A n \in Passed(module, ti, ni) : ~Nameless(module[n[1]].graph[n[2]])
    /\ \A i \in 1..Len(disk) :
          LET m == project[disk[i].name[2]]
          IN \A a \in 1..Len(m) : \A b \in 1..Len(m[a].graph) : ~Nameless(m[a].graph[b])
    /\ mpc = "raised" =>
          /\ Nameless(CurrentNode)
          /\ ~f.committed
          /\ \A i \in 1..Len(disk) : disk[i].name # <<"makefile", mi>>
          /\ \A k \in 1..Len(calls) :
                <<calls[k].module, calls[k].target, calls[k].node>> # <<mi, ti, ni + 1>>

\* C12 witness: generation stopped at a node with two unnamed outputs after
\* a block was written to the same makefile
C12_Witness ==
    /\ mpc = "raised"
    /\ CurrentNode.name = NoExpr
    /\ Len(CurrentNode.outputs) = 2
    /\ f.text # ""
    /\ ~f.committed

(***************************************************************************)
(* C13: no commit after an error                                           *)
(***************************************************************************)
\* A module of the makefile project with a node that cannot be named
HasNameless(m) ==
    \E a \in 1..Len(m) : \E b \in 1..Len(m[a].graph) : Nameless(m[a].graph[b])

\* A target VS2010Toolset cannot lower: of a type it does not know, or with
\* a reference left in one of the values it formats
VsFaulty(t) ==
    \/ t.type \notin {"exe", "library"}
    \/ \E e \in Range(t.defines) \cup Range(t.includedirs)
                  \cup Range(t.sources) \cup Range(t.headers) :
          e.kind = "reference"

\* A file of that name has been made visible
OnDisk(name) == \E i \in 1..Len(disk) : disk[i].name = name

\* The output files of module i and of its target j
MakefileOf(i) == <<"makefile", i>>

ProjectFileOf(i, j) ==
    Path(vsproject[i].source_file.dir, vsproject[i].targets[j].name, ".vcxproj")

SolutionFileOf(i) ==
    Path(vsproject[i].source_file.dir, vsproject[i].source_file.stem, ".sln")

\* C13: when a step between opening an output file and its commit fails,
\* that file is never committed: a makefile whose module has a node that
\* cannot be named, the project file of a target that cannot be lowered and
\* the solution file of that target's module are never made visible, and
\* the files open when the error is raised stay uncommitted.
C13_NoCommitAfterError ==
    /\ mpc # "idle" =>
          /\ \A i \in 1..Len(project) :
                HasNameless(project[i]) => ~OnDisk(MakefileOf(i))
          /\ mpc = "raised" => ~f.committed
    /\ vpc # "idle" =>
          /\ \A i \in 1..Len(vsproject) : \A j \in 1..Len(vsproject[i].targets) :
                VsFaulty(vsproject[i].targets[j]) =>
                    /\ ~OnDisk(ProjectFileOf(i, j))
                    /\ ~OnDisk(SolutionFileOf(i))
          /\ vpc = "raised" =>
                /\ ~sln.file.committed
                /\ prj.filename = ProjectFileOf(vmi, vti) => ~prj.committed

\* C13 witness: formatting the tree of the second target failed after its
\* project file was opened; the solution holds the first target only
C13_Witness ==
    /\ vpc = "raised"
    /\ vti = 2
    /\ prj.filename = ProjectFileOf(vmi, vti)
    /\ ~prj.committed
    /\ Len(sln.guids) = 1
    /\ ~sln.file.committed
    /\ OnDisk(ProjectFileOf(vmi, 1))
    /\ ~OnDisk(SolutionFileOf(vmi))

(***************************************************************************)
(* C14: what an error in one target does to the other outputs              *)
(***************************************************************************)
\* C14: when generate(project) is over, by returning or by an error, the
\* output of everything that did not fail has been generated and committed:
\* the makefile of every module whose nodes can all be named, and the
\* project file of every target that can be lowered, those later in
\* iteration order than the failing one included.
C14_OthersStillGenerated ==
    /\ mpc \in {"done", "raised"} =>
          \A i \in 1..Len(project) :
              ~HasNameless(project[i]) => OnDisk(MakefileOf(i))
    /\ vpc \in {"done", "raised"} =>
          \A i \in 1..Len(vsproject) : \A j \in 1..Len(vsproject[i].targets) :
              ~VsFaulty(vsproject[i].targets[j]) => OnDisk(ProjectFileOf(i, j))

(***************************************************************************)
(* C15: what the GUID of a target depends on                               *)
(***************************************************************************)
\* The source file of the module the k-th guid was computed in
IssuedIn(k) == vsproject[issued[k].module].source_file

\* C15 (as stated): within one project, the same target name always gets
\* the same GUID, whatever the module's source file is called and wherever
\* it is.
C15_Original ==
    \A a, b \in 1..Len(issued) :
        issued[a].target = issued[b].target => issued[a].guid = issued[b].guid

\* C15 (amended): the GUID depends only on the namespace constant, the base
\* name of the module's source file without its extension, and the target's
\* name: the same base name and target name give the same GUID wherever the
\* source file is, and another base name gives another GUID.
C15_GuidFromSolutionName ==
    \A a, b \in 1..Len(issued) :
        issued[a].target = issued[b].target =>
            (issued[a].guid = issued[b].guid) = (IssuedIn(a).stem = IssuedIn(b).stem)

\* C15 witness: the same target name in two source files of the same base
\* name in different directories
C15_Witness ==
    \E a, b \in 1..Len(issued) :
        /\ issued[a].target = issued[b].target
        /\ IssuedIn(a).stem = IssuedIn(b).stem
        /\ IssuedIn(a).dir # IssuedIn(b).dir
        /\ issued[a].guid = issued[b].guid

(***************************************************************************)
(* C16: the document XmlFormatter.format gives for a tree                  *)
(***************************************************************************)
\* The text of a value: 'true' or 'false' for a boolean, the items joined
\* by ';' for a list, the text itself otherwise
RECURSIVE ExprText(_)
ExprText(e) ==
    IF e.kind = "list"
    THEN IF e.v = <<>> THEN ""
         ELSE IF Len(e.v) = 1 THEN ExprText(e.v[1])
         ELSE ExprText(e.v[1]) \o ";" \o ExprText(ListExpr(Tail(e.v)))
    ELSE e.v

ValueText(val) ==
    CASE val.t = "bool" -> (IF val.b THEN "true" ELSE "false")
      [] val.t = "expr" -> ExprText(val.e)
      [] OTHER -> val.s

\* The element of node n as the claim describes it: the attributes in
\* order, the children in order between an opening and a closing tag, or a
\* self-closed tag when there are no children; keepEmpty tells whether a
\* scalar child with an empty value is written
RECURSIVE Element(_, _, _)
Element(n, indent, keepEmpty) ==
    LET attr(i) == " " \o n.attrs[i][1] \o "="
                       \o quoteattr(ValueText(n.attrs[i][2]))
        child(i) ==
            LET key == n.children[i][1]
                val == n.children[i][2]
            IN IF val.t = "node" THEN Element(val, indent \o "  ", keepEmpty)
               ELSE IF ValueText(val) = "" /\ ~keepEmpty THEN ""
               ELSE indent \o "  <" \o key \o ">" \o escape(ValueText(val))
                           \o "</" \o key \o ">\n"
        open == indent \o "<" \o n.name
                       \o Join("", [i \in 1..Len(n.attrs) |-> attr(i)])
    IN IF Len(n.children) = 0 THEN open \o " />\n"
       ELSE open \o ">\n"
                 \o Join("", [i \in 1..Len(n.children) |-> child(i)])
                 \o indent \o "</" \o n.name \o ">\n"

\* C16 (as stated): the document is the declaration header and the root
\* element, every element with all its attributes in insertion order and
\* every child inside it in insertion order, a nested Node as a nested
\* element and every scalar pair as a leaf <key>value</key>, booleans as
\* 'true' or 'false', self-closed exactly when there are no children.
C16_Original ==
    xpc = "done" => xout = XML_HEADER \o Element(xroot, "", TRUE)

\* C16 (amended): as stated, except that a scalar pair whose value renders
\* as the empty text is not written at all; values are written XML-escaped;
\* an element is self-closed exactly when its list of children is empty.
C16_EmptyValuesLeftOut ==
    xpc = "done" => xout = XML_HEADER \o Element(xroot, "", FALSE)

\* C16 witness: a formatted root with two attributes, a nested element
\* holding a boolean, and a scalar child with an empty value
C16_Witness ==
    /\ xpc = "done"
    /\ Len(xroot.attrs) = 2
    /\ \E i \in 1..Len(xroot.children) :
          LET c == xroot.children[i][2]
          IN /\ c.t = "node"
             /\ \E j \in 1..Len(c.children) : c.children[j][2].t = "bool"
    /\ \E i \in 1..Len(xroot.children) :
          LET c == xroot.children[i][2]
          IN c.t # "node" /\ ValueText(c) = ""

(***************************************************************************)
(* C17: open, write, commit                                                *)
(***************************************************************************)
\* The nodes of module m as <<target, node>>, in target iteration order and,
\* within a target, in the order of its build subgraph
RECURSIVE NodesInOrder(_, _)
NodesInOrder(m, a) ==
    IF a > Len(m) THEN <<>>
    ELSE [b \in 1..Len(m[a].graph) |-> <<a, b>>] \o NodesInOrder(m, a + 1)

\* The Formatter.target calls made for module i, in the order made
CallsFor(i) ==
    LET RECURSIVE pick(_)
        pick(cs) == IF cs = <<>> THEN <<>>
                    ELSE IF Head(cs).module = i THEN <<Head(cs)>> \o pick(Tail(cs))
                    ELSE pick(Tail(cs))
    IN pick(calls)

\* The indices of the files committed under the name of module i's makefile
CommitsOf(i) == { k \in 1..Len(disk) : disk[k].name = MakefileOf(i) }

\* C17: for every module the text written to its makefile is, at any time,
\* the blocks of the first nodes of the module in target and node order, one
\* block per node, each appended after the ones before; the file is
\* committed once, when every node has its block, and is as committed from
\* then on.
C17_OpenWriteCommit ==
    \A i \in 1..mi :
        LET order == NodesInOrder(project[i], 1)
            made == CallsFor(i)
            whole == Join("", [k \in 1..Len(order) |->
                                  LET node == project[i][order[k][1]].graph[order[k][2]]
                                  IN Block(Rendered(NodeOut(node)),
                                           made[k].deps, made[k].commands)])
        IN /\ Len(made) <= Len(order)
           /\ \A k \in 1..Len(made) : <<made[k].target, made[k].node>> = order[k]
           /\ i = mi =>
                 /\ f.text = Join("", [k \in 1..Len(made) |-> made[k].text])
                 /\ f.committed = (CommitsOf(i) # {})
                 /\ f.committed => Len(made) = Len(order)
           /\ i < mi => CommitsOf(i) # {}
           /\ Cardinality(CommitsOf(i)) <= 1
           /\ \A k \in CommitsOf(i) :
                 /\ Len(made) = Len(order)
                 /\ disk[k].text = whole

\* C17 witness: a makefile committed with the blocks of three targets, one of
\* them with two nodes
C17_Witness ==
    /\ mi = 1
    /\ f.committed
    /\ Len(CallsFor(1)) = 4
    /\ Len(project[1][1].graph) = 2
    /\ disk[1].text = f.text

(***************************************************************************)
(* C18: the solution file                                                  *)
(***************************************************************************)
\* The guid computed for target j of module i
GuidOf(i, j) ==
    issued[CHOOSE k \in 1..Len(issued) :
              /\ issued[k].module = i
              /\ issued[k].target = vsproject[i].targets[j].name].guid

\* The solution of module i as the claim describes it: after the heading,
\* one entry per target with its name, the file name of its project file
\* and its guid, then, in the project configuration section, one group of
\* four entries per guid
SolutionText(i) ==
    LET ts == vsproject[i].targets
        entry(j) == "Project(\"8BC9CEB8-8B4A-11D0-8D11-00A0C91BC942\") = \""
                       \o ts[j].name \o "\", \""
                       \o ts[j].name \o ".vcxproj" \o "\", \""
                       \o GuidOf(i, j) \o "\"\nEndProject\n"
        cfg(j, c, what) == "\t\t" \o GuidOf(i, j) \o "." \o c \o "|Win32." \o what
                              \o " = " \o c \o "|Win32\n"
        group(j) == cfg(j, "Debug", "ActiveCfg") \o cfg(j, "Debug", "Build.0")
                       \o cfg(j, "Release", "ActiveCfg") \o cfg(j, "Release", "Build.0")
    IN BOM_UTF8 \o "\n"
          \o "Microsoft Visual Studio Solution File, Format Version 11.00\n"
          \o "# Visual Studio 2010\n"
          \o Join("", [j \in 1..Len(ts) |-> entry(j)])
          \o "Global\n"
          \o "\tGlobalSection(SolutionConfigurationPlatforms) = preSolution\n"
          \o "\t\tDebug|Win32 = Debug|Win32\n"
          \o "\t\tRelease|Win32 = Release|Win32\n"
          \o "\tEndGlobalSection\n"
          \o "\tGlobalSection(ProjectConfigurationPlatforms) = postSolution\n"
          \o Join("", [j \in 1..Len(ts) |-> group(j)])
          \o "\tEndGlobalSection\n"
          \o "EndGlobal\n"

\* C18: a committed solution file lists every target of its module once, in
\* target iteration order, each with its guid and the file name of its
\* project file, holds one group of configuration entries per guid in the
\* same order, and every project file it lists was committed before it.
C18_SolutionListsTargets ==
    \A i \in 1..Len(vsproject) : \A k \in 1..Len(disk) :
        disk[k].name = SolutionFileOf(i) =>
            /\ disk[k].text = SolutionText(i)
            /\ \A j \in 1..Len(vsproject[i].targets) :
                  \E k2 \in 1..(k - 1) : disk[k2].name = ProjectFileOf(i, j)
            /\ i = vmi =>
                  sln.guids = [j \in 1..Len(vsproject[i].targets) |-> GuidOf(i, j)]

\* C18 witness: the solution of a module with two targets committed
C18_Witness ==
    \E k \in 1..Len(disk) :
        /\ disk[k].name = SolutionFileOf(1)
        /\ Len(vsproject[1].targets) = 2
        /\ Len(sln.guids) = 2
        /\ sln.guids[1] # sln.guids[2]
        /\ vmi = 1

(***************************************************************************)
(* C19: lookup and enumeration of the target scope                         *)
(***************************************************************************)
\* C19: after enum_target_props(T) has run, no two of the properties it
\* yielded have the same name, and get_target_prop(T, p.name) returns p for
\* every property p it yielded.
C19_LookupAgreesWithEnum ==
    call.f = "enum_target_props" =>
        /\ \A i, j \in 1..Len(call.yielded) :
              i # j => call.yielded[i].name # call.yielded[j].name
        /\ \A i \in 1..Len(call.yielded) :
              get_target_prop(Heap, toolsets, call.scope, call.yielded[i].name).ret
                  = call.yielded[i]

====
